---- MODULE Spec2Model ----
(***************************************************************************)
(* State-machine model of rag-core: the RAG query pipeline, hybrid         *)
(* retrieval, the recursive character chunker, the HTTP route handlers,    *)
(* the CLI chat loop and directory ingestion.                              *)
(*                                                                         *)
(* Each component has its own variables (prefix q_, h_, ...) and its own   *)
(* specification (SpecQuery, SpecHybrid, ...); a component's actions       *)
(* leave the other components' variables unchanged.                        *)
(*                                                                         *)
(* Scores and weights are fixed-point integers in hundredths (0.75 is 75), *)
(* a weighted score is in ten-thousandths.  Chunk texts and documents are  *)
(* short strings or sequences of one-character strings.                    *)
(***************************************************************************)
EXTENDS Integers, Sequences, FiniteSets, TLC

VARIABLES
    \* RAGPipeline.query
    q_config,       \* [retrieve_top_k, rerank_top_n] of the held RAGConfig
    q_arg_top_k,    \* the top_k argument: <<>> when omitted, <<k>> otherwise
    q_use_rerank,   \* the use_rerank argument
    q_top_k,        \* the local top_k after the default is applied
    q_retrieved,    \* texts of retrieved_docs, in retrieval order
    q_reranked,     \* what reranker.rerank returned (<<>> when not called)
    q_rerank_calls, \* number of reranker.rerank calls made by the query
    q_contexts,     \* the contexts argument of prompt_engine.build_prompt
    q_status,       \* "idle", "ok", "retrieve_error" or "rerank_error"
    \* HybridRetriever.search
    h_config,       \* HybridRetrieverConfig held by the retriever
    h_top_k,        \* the top_k argument
    h_vec,          \* vector leg: [raised, results], results a list of [text, score]
    h_txt,          \* BM25 leg: [raised, results]
    h_out,          \* the returned list of [text, score, vector_score, text_score]
    h_status,       \* "idle", "ok" or "error" (search raised)
    \* RecursiveCharTextChunk
    c_phase,        \* "none", "ctor_error", "ready" or "returned"
    c_ctor,         \* the constructor's arguments [chunk_size, chunk_overlap]
    c_chunker,      \* the chunker object: chunk_size, chunk_overlap and its splitter
    c_call,         \* the arguments of the get_chunks call that has returned
    c_chunks,       \* the list get_chunks returned
    \* POST /chat/query-stream
    s_phase,        \* "idle", "rejected" (400), "failed" (500), "streaming" or "closed"
    s_source,       \* the LLM fragment iterator: [pending, raises]
    s_yielded,      \* the fragments the iterator has yielded so far
    s_events,       \* the events written to the response so far
    \* get_pipeline of the two route groups
    p_cached,       \* per group, the module global _pipeline: 0 is None, n the n-th built
    p_built,        \* per group, how many RAGPipeline objects have been constructed
    p_req,          \* per request: [pc, group, sawNone, built, result]
    \* upload_document
    u_phase,        \* "idle", "reading" (awaiting file.read()) or "done"
    u_filename,     \* file.filename, a sequence of characters (<<>> when missing)
    u_status,       \* the HTTP status of the response, 0 before there is one
    u_tmp,          \* the temporary file: "none", "exists" or "deleted"
    u_calls,        \* number of process_file calls made by the request
    \* chat_interaction
    k_phase,        \* "stopped", "reading" or "ended"
    k_turns,        \* number of input() calls so far in the session
    k_calls,        \* number of pipeline.query calls so far in the session
    k_last,         \* the last turn: [event, line, queries, outcome]
    k_end,          \* why the session ended
    \* process_directory
    d_phase,        \* "idle", "looping", "done" or "raised"
    d_exists,       \* whether the directory exists
    d_files,        \* the matched files, in the order of the listing
    d_idx,          \* number of files the loop has gone through
    d_returned,     \* per attempted file, what process_file did
    d_attempts,     \* per matched file, number of process_file calls
    d_results,      \* the results dict
    \* update_config
    uc_config,      \* the configuration held by the RAG pipeline and by the preprocessing pipeline
    uc_pre,         \* the components of the preprocessing pipeline
    uc_rag,         \* the vector store held by the RAG pipeline and by its retriever
    uc_n,           \* number of update_config calls so far
    uc_last,        \* the last call: [key, value, overlap before the call, raised]
    \* WeaviateVector
    w_index,        \* self.index: "True" or "None"
    w_exists,       \* whether the collection exists in the database
    w_stores,       \* number of store_texts calls on this adapter
    w_queries,      \* number of queries this adapter has sent to the database
    w_last,         \* the last call: [op, result]
    \* RetrievalFactory.create_retriever
    f_phase,        \* "idle" or "created"
    f_args,         \* the arguments of create_retriever: [type, store, config]
    f_result,       \* what create_retriever returned or raised: [kind, store, config]
    f_call,         \* the call the returned vector retriever made on its store
    \* ParserFactory
    r_registry,     \* _parser_registry: per extension, its variants
    r_regs,         \* number of register_parser calls since import
    r_last,         \* the last register_parser call: [ext, cls, name]
    r_lookup,       \* the last get_parser_for_extension call: [ext, type, result]
    \* RAGConfig.from_config_file
    g_phase,        \* "idle" or "loaded"
    g_file,         \* per field, what the configuration file sets
    g_record,       \* the RAGConfig that from_config_file returned
    \* parse of the parser classes
    x_phase,        \* "idle" or "parsed"
    x_call,         \* the call: [parser, by_chapter, source_type]
    x_outcome,      \* what the call returned or raised
    \* MarkdownParser.parse_by_sections
    md_phase,       \* "idle" or "parsed"
    md_lines,       \* the lines of the text
    md_sections,    \* the metadata of the returned documents, in order
    \* ContentDetector.detect_content_type
    t_phase,        \* "idle" or "detected"
    t_content,      \* the text given to the detector
    t_raw,          \* the locals markdown_score and html_score
    t_scores,       \* the returned scores
    \* MineruParser._parse_pdf_to_documents
    n_phase,        \* "idle" or "parsed"
    n_content_list, \* the content list extracted from the PDF
    n_result,       \* what the call did: an exception or the documents
    \* MineruVLMParser.aprocess_batch_pdfs
    b_phase,        \* "idle", "gathering" or "returned"
    b_exists,       \* whether pdfs_dir exists
    b_pdf_files,    \* what happens to each PDF of the directory
    b_batch_results, \* what each task gave to gather, "pending" until it finishes
    b_result,       \* the returned record, or the exception raised
    \* ParserFactory.smart_select_parser
    sm_phase,       \* "idle" or "returned"
    sm_call,        \* the arguments of the call
    sm_parser,      \* the class of the returned parser, or the exception
    \* DocumentProcessingPipeline.process_file
    pf_phase,       \* "idle" or "returned"
    pf_documents,   \* the documents the parser returned
    pf_store_calls, \* the calls of store_texts made by the call
    pf_result,      \* the returned chunks, or the exception raised
    \* The BM25 score normalization
    nm_raw,         \* two raw BM25 scores
    nm_normalized,  \* their normalized values
    \* The process-wide logger and the route groups
    lg_pipeline,    \* the _pipeline global of each router
    lg_module_levels, \* the module-level map the logger was last set up with
    lg_last_setup,  \* the route group whose get_pipeline last called setup_logger
    lg_calls        \* number of get_pipeline calls per route group

queryVars == <<q_config, q_arg_top_k, q_use_rerank, q_top_k, q_retrieved,
               q_reranked, q_rerank_calls, q_contexts, q_status>>

hybridVars == <<h_config, h_top_k, h_vec, h_txt, h_out, h_status>>

chunkVars == <<c_phase, c_ctor, c_chunker, c_call, c_chunks>>

streamVars == <<s_phase, s_source, s_yielded, s_events>>

pipeVars == <<p_cached, p_built, p_req>>

uploadVars == <<u_phase, u_filename, u_status, u_tmp, u_calls>>

chatVars == <<k_phase, k_turns, k_calls, k_last, k_end>>

dirVars == <<d_phase, d_exists, d_files, d_idx, d_returned, d_attempts, d_results>>

updateVars == <<uc_config, uc_pre, uc_rag, uc_n, uc_last>>

adapterVars == <<w_index, w_exists, w_stores, w_queries, w_last>>

factoryVars == <<f_phase, f_args, f_result, f_call>>

registryVars == <<r_registry, r_regs, r_last, r_lookup>>

configVars == <<g_phase, g_file, g_record>>

parseVars == <<x_phase, x_call, x_outcome>>

markdownVars == <<md_phase, md_lines, md_sections>>

detectVars == <<t_phase, t_content, t_raw, t_scores>>

mineruVars == <<n_phase, n_content_list, n_result>>

batchVars == <<b_phase, b_exists, b_pdf_files, b_batch_results, b_result>>

smartVars == <<sm_phase, sm_call, sm_parser>>

fileVars == <<pf_phase, pf_documents, pf_store_calls, pf_result>>

normVars == <<nm_raw, nm_normalized>>

logVars == <<lg_pipeline, lg_module_levels, lg_last_setup, lg_calls>>

vars == <<queryVars, hybridVars, chunkVars, streamVars, pipeVars, uploadVars,
          chatVars, dirVars,
          updateVars,
          adapterVars,
          factoryVars,
          registryVars,
          configVars,
          parseVars,
          markdownVars,
          detectVars,
          mineruVars,
          batchVars,
          smartVars,
          fileVars,
          normVars,
          logVars>>

\* What a component's actions leave alone: every other component.
exceptQuery == <<hybridVars, chunkVars, streamVars, pipeVars, uploadVars, chatVars,
    dirVars, updateVars, adapterVars, factoryVars, registryVars,
    configVars, parseVars, markdownVars, detectVars, mineruVars,
    batchVars, smartVars, fileVars, normVars, logVars>>
exceptHybrid == <<queryVars, chunkVars, streamVars, pipeVars, uploadVars, chatVars,
    dirVars, updateVars, adapterVars, factoryVars, registryVars,
    configVars, parseVars, markdownVars, detectVars, mineruVars,
    batchVars, smartVars, fileVars, normVars, logVars>>
exceptChunk == <<queryVars, hybridVars, streamVars, pipeVars, uploadVars, chatVars,
    dirVars, updateVars, adapterVars, factoryVars, registryVars,
    configVars, parseVars, markdownVars, detectVars, mineruVars,
    batchVars, smartVars, fileVars, normVars, logVars>>
exceptStream == <<queryVars, hybridVars, chunkVars, pipeVars, uploadVars, chatVars,
    dirVars, updateVars, adapterVars, factoryVars, registryVars,
    configVars, parseVars, markdownVars, detectVars, mineruVars,
    batchVars, smartVars, fileVars, normVars, logVars>>
exceptPipe == <<queryVars, hybridVars, chunkVars, streamVars, uploadVars, chatVars,
    dirVars, updateVars, adapterVars, factoryVars, registryVars,
    configVars, parseVars, markdownVars, detectVars, mineruVars,
    batchVars, smartVars, fileVars, normVars, logVars>>
exceptUpload == <<queryVars, hybridVars, chunkVars, streamVars, pipeVars, chatVars,
    dirVars, updateVars, adapterVars, factoryVars, registryVars,
    configVars, parseVars, markdownVars, detectVars, mineruVars,
    batchVars, smartVars, fileVars, normVars, logVars>>
exceptChat == <<queryVars, hybridVars, chunkVars, streamVars, pipeVars, uploadVars,
    dirVars, updateVars, adapterVars, factoryVars, registryVars,
    configVars, parseVars, markdownVars, detectVars, mineruVars,
    batchVars, smartVars, fileVars, normVars, logVars>>
exceptDir == <<queryVars, hybridVars, chunkVars, streamVars, pipeVars, uploadVars,
    chatVars, updateVars, adapterVars, factoryVars, registryVars,
    configVars, parseVars, markdownVars, detectVars, mineruVars,
    batchVars, smartVars, fileVars, normVars, logVars>>
exceptUpdate == <<queryVars, hybridVars, chunkVars, streamVars, pipeVars, uploadVars,
    chatVars, dirVars, adapterVars, factoryVars, registryVars,
    configVars, parseVars, markdownVars, detectVars, mineruVars,
    batchVars, smartVars, fileVars, normVars, logVars>>
exceptAdapter == <<queryVars, hybridVars, chunkVars, streamVars, pipeVars, uploadVars,
    chatVars, dirVars, updateVars, factoryVars, registryVars,
    configVars, parseVars, markdownVars, detectVars, mineruVars,
    batchVars, smartVars, fileVars, normVars, logVars>>
exceptFactory == <<queryVars, hybridVars, chunkVars, streamVars, pipeVars, uploadVars,
    chatVars, dirVars, updateVars, adapterVars, registryVars,
    configVars, parseVars, markdownVars, detectVars, mineruVars,
    batchVars, smartVars, fileVars, normVars, logVars>>
exceptRegistry == <<queryVars, hybridVars, chunkVars, streamVars, pipeVars, uploadVars,
    chatVars, dirVars, updateVars, adapterVars, factoryVars,
    configVars, parseVars, markdownVars, detectVars, mineruVars,
    batchVars, smartVars, fileVars, normVars, logVars>>
exceptConfig == <<queryVars, hybridVars, chunkVars, streamVars, pipeVars, uploadVars,
    chatVars, dirVars, updateVars, adapterVars, factoryVars,
    registryVars, parseVars, markdownVars, detectVars, mineruVars,
    batchVars, smartVars, fileVars, normVars, logVars>>
exceptParse == <<queryVars, hybridVars, chunkVars, streamVars, pipeVars, uploadVars,
    chatVars, dirVars, updateVars, adapterVars, factoryVars,
    registryVars, configVars, markdownVars, detectVars, mineruVars,
    batchVars, smartVars, fileVars, normVars, logVars>>
exceptMarkdown == <<queryVars, hybridVars, chunkVars, streamVars, pipeVars, uploadVars,
    chatVars, dirVars, updateVars, adapterVars, factoryVars,
    registryVars, configVars, parseVars, detectVars, mineruVars,
    batchVars, smartVars, fileVars, normVars, logVars>>
exceptDetect == <<queryVars, hybridVars, chunkVars, streamVars, pipeVars, uploadVars,
    chatVars, dirVars, updateVars, adapterVars, factoryVars,
    registryVars, configVars, parseVars, markdownVars, mineruVars,
    batchVars, smartVars, fileVars, normVars, logVars>>
exceptMineru == <<queryVars, hybridVars, chunkVars, streamVars, pipeVars, uploadVars,
    chatVars, dirVars, updateVars, adapterVars, factoryVars,
    registryVars, configVars, parseVars, markdownVars, detectVars,
    batchVars, smartVars, fileVars, normVars, logVars>>
exceptBatch == <<queryVars, hybridVars, chunkVars, streamVars, pipeVars, uploadVars,
    chatVars, dirVars, updateVars, adapterVars, factoryVars,
    registryVars, configVars, parseVars, markdownVars, detectVars,
    mineruVars, smartVars, fileVars, normVars, logVars>>
exceptSmart == <<queryVars, hybridVars, chunkVars, streamVars, pipeVars, uploadVars,
    chatVars, dirVars, updateVars, adapterVars, factoryVars,
    registryVars, configVars, parseVars, markdownVars, detectVars,
    mineruVars, batchVars, fileVars, normVars, logVars>>
exceptFile == <<queryVars, hybridVars, chunkVars, streamVars, pipeVars, uploadVars,
    chatVars, dirVars, updateVars, adapterVars, factoryVars,
    registryVars, configVars, parseVars, markdownVars, detectVars,
    mineruVars, batchVars, smartVars, normVars, logVars>>
exceptNorm == <<queryVars, hybridVars, chunkVars, streamVars, pipeVars, uploadVars,
    chatVars, dirVars, updateVars, adapterVars, factoryVars,
    registryVars, configVars, parseVars, markdownVars, detectVars,
    mineruVars, batchVars, smartVars, fileVars, logVars>>
exceptLog == <<queryVars, hybridVars, chunkVars, streamVars, pipeVars, uploadVars,
    chatVars, dirVars, updateVars, adapterVars, factoryVars,
    registryVars, configVars, parseVars, markdownVars, detectVars,
    mineruVars, batchVars, smartVars, fileVars, normVars>>

(***************************************************************************)
(* Generic helpers                                                         *)
(***************************************************************************)
Min(a, b) == IF a <= b THEN a ELSE b

\* All sequences over S of length at most n.
SeqsUpTo(S, n) == UNION {[1..k -> S] : k \in 0..n}

\* Python's s[:k] for k >= 0.
PySlice(s, k) == SubSeq(s, 1, Min(k, Len(s)))

\* Chunk texts that a retriever or the reranker can return.
Texts == {"A", "B"}

(***************************************************************************)
(* RAGPipeline.query                                                       *)
(***************************************************************************)
\* Largest top_k / configured retrieve_top_k / rerank_top_n explored.
MaxTopK == 3
\* Longest candidate list a retriever or the reranker returns.
MaxDocs == 3

\* The pipeline exists with some configuration and no query is in progress.
QueryIdle ==
    /\ q_config \in [retrieve_top_k : 1..MaxTopK, rerank_top_n : 1..MaxTopK]
    /\ q_arg_top_k = <<>>
    /\ q_use_rerank = TRUE
    /\ q_top_k = 0
    /\ q_retrieved = <<>>
    /\ q_reranked = <<>>
    /\ q_rerank_calls = 0
    /\ q_contexts = <<>>
    /\ q_status = "idle"

\* The pipeline of a default configuration, never queried.
QueryParked ==
    /\ QueryIdle
    /\ q_config = [retrieve_top_k |-> 1, rerank_top_n |-> 1]

\* The rerank gate of query: the reranker runs only here.
RerankGate(use_rerank, contexts) == use_rerank /\ Len(contexts) > 1

\* Slip: the rerank branch truncated to top_k instead of rerank_top_n.
RerankLimitTopK(config, top_k) == top_k

\* The slice bound of the rerank branch.
RerankLimit(config, top_k) == config.rerank_top_n

\* One call of query(query_text, top_k, score_threshold, use_rerank).
\* retrieved is what retriever.search returns, reranked what reranker.rerank
\* would return; either collaborator may raise, and the exception propagates.
Query(arg_top_k, use_rerank, retrieveRaises, retrieved, rerankRaises, reranked) ==
    LET top_k == IF arg_top_k = <<>> THEN q_config.retrieve_top_k ELSE arg_top_k[1]
    IN  /\ q_status = "idle"
        /\ q_arg_top_k' = arg_top_k
        /\ q_use_rerank' = use_rerank
        /\ q_top_k' = top_k
        /\ IF retrieveRaises
           THEN /\ q_status' = "retrieve_error"
                /\ q_retrieved' = <<>>
                /\ q_reranked' = <<>>
                /\ q_rerank_calls' = 0
                /\ q_contexts' = <<>>
           ELSE /\ q_retrieved' = retrieved
                /\ IF RerankGate(use_rerank, retrieved)
                   THEN /\ q_rerank_calls' = 1
                        /\ IF rerankRaises
                           THEN /\ q_status' = "rerank_error"
                                /\ q_reranked' = <<>>
                                /\ q_contexts' = <<>>
                           ELSE /\ q_status' = "ok"
                                /\ q_reranked' = reranked
                                /\ q_contexts' = PySlice(reranked, RerankLimit(q_config, top_k))
                   ELSE /\ q_rerank_calls' = 0
                        /\ q_reranked' = <<>>
                        /\ q_status' = "ok"
                        /\ q_contexts' = PySlice(retrieved, top_k)
        /\ UNCHANGED <<q_config, exceptQuery>>

QueryCall ==
    /\ q_status = "idle"
    /\ \E arg_top_k \in {<<>>} \cup {<<k>> : k \in 0..MaxTopK},
          use_rerank \in BOOLEAN,
          retrieved \in SeqsUpTo(Texts, MaxDocs) :
           \/ Query(arg_top_k, use_rerank, TRUE, <<>>, FALSE, <<>>)
           \/ Query(arg_top_k, use_rerank, FALSE, retrieved, TRUE, <<>>)
           \/ \E reranked \in SeqsUpTo(Texts, MaxDocs) :
                 Query(arg_top_k, use_rerank, FALSE, retrieved, FALSE, reranked)

\* The call has returned (or raised): its locals are gone, the pipeline and
\* its configuration stay.
QueryReturn ==
    /\ q_status # "idle"
    /\ q_status' = "idle"
    /\ q_arg_top_k' = <<>>
    /\ q_use_rerank' = TRUE
    /\ q_top_k' = 0
    /\ q_retrieved' = <<>>
    /\ q_reranked' = <<>>
    /\ q_rerank_calls' = 0
    /\ q_contexts' = <<>>
    /\ UNCHANGED <<q_config, exceptQuery>>

QueryNext == QueryCall \/ QueryReturn

(***************************************************************************)
(* HybridRetriever.search                                                  *)
(***************************************************************************)
\* Longest result list one leg returns.
MaxLeg == 2

\* Raw similarity scores of the vector leg (0.9, 1.2) and raw BM25 scores of
\* the text leg (0.5, 5.0, 8.0, 12.0), in hundredths.
VectorScores == {90, 120}
BM25Scores == {50, 500, 800, 1200}

\* (vector_weight, text_weight) pairs: the dataclass default and the
\* factory's fallback.
WeightPairs == {<<75, 25>>, <<70, 30>>}

HybridConfigs ==
    {[vector_weight |-> w[1], text_weight |-> w[2],
      enable_vector_search |-> ev, enable_text_search |-> et] :
        w \in WeightPairs, ev \in BOOLEAN, et \in BOOLEAN}

NoLeg == [raised |-> FALSE, results |-> <<>>]

\* The retriever exists and no search is in progress.
HybridIdle ==
    /\ h_config \in HybridConfigs
    /\ h_top_k = 0
    /\ h_vec = NoLeg
    /\ h_txt = NoLeg
    /\ h_out = <<>>
    /\ h_status = "idle"

\* The retriever of the default weights, never searched.
HybridParked ==
    /\ HybridIdle
    /\ h_config = [vector_weight |-> 75, text_weight |-> 25,
                   enable_vector_search |-> TRUE, enable_text_search |-> TRUE]

\* min(score, 1.0)
VectorNorm(score) == Min(score, 100)

\* Slip: the raw BM25 score is only capped, never divided by 10.
TextNormCapOnly(score) == Min(score, 100)

\* min(score / 10.0, 1.0) if score > 1.0 else score
TextNorm(score) == IF score > 100 THEN Min(score \div 10, 100) ELSE score

\* Position of text among the keys of the insertion-ordered dict, 0 if absent.
KeyIndex(map, text) ==
    IF \E i \in 1..Len(map) : map[i].text = text
    THEN CHOOSE i \in 1..Len(map) : map[i].text = text
    ELSE 0

\* combined_scores[text] = entry: a new key is appended, an existing key
\* keeps its position.
DictSet(map, entry) ==
    LET i == KeyIndex(map, entry.text)
    IN  IF i = 0 THEN Append(map, entry) ELSE [map EXCEPT ![i] = entry]

\* The loop over vector_results.
RECURSIVE ProcessVector(_, _, _)
ProcessVector(map, results, cfg) ==
    IF results = <<>> THEN map
    ELSE LET r == Head(results)
             n == VectorNorm(r.score)
         IN  ProcessVector(
                 DictSet(map, [text |-> r.text, vector_score |-> n, text_score |-> 0,
                               combined_score |-> n * cfg.vector_weight]),
                 Tail(results), cfg)

\* The loop over text_results.
RECURSIVE ProcessText(_, _, _)
ProcessText(map, results, cfg) ==
    IF results = <<>> THEN map
    ELSE LET r == Head(results)
             n == TextNorm(r.score)
             i == KeyIndex(map, r.text)
             next ==
                 IF i # 0
                 THEN [map EXCEPT ![i].text_score = n,
                                  ![i].combined_score = @ + n * cfg.text_weight]
                 ELSE Append(map, [text |-> r.text, vector_score |-> 0, text_score |-> n,
                                   combined_score |-> n * cfg.text_weight])
         IN  ProcessText(next, Tail(results), cfg)

\* Slip: ascending order (reverse=True dropped).
InsertSortedAscending(sorted, e) ==
    LET k == Cardinality({i \in 1..Len(sorted) : sorted[i].combined_score <= e.combined_score})
    IN  SubSeq(sorted, 1, k) \o <<e>> \o SubSeq(sorted, k + 1, Len(sorted))

\* One step of the stable descending sort: e goes after every element
\* whose combined_score is at least its own.
InsertSorted(sorted, e) ==
    LET k == Cardinality({i \in 1..Len(sorted) : sorted[i].combined_score >= e.combined_score})
    IN  SubSeq(sorted, 1, k) \o <<e>> \o SubSeq(sorted, k + 1, Len(sorted))

\* sorted(combined_scores.values(), key=combined_score, reverse=True)
RECURSIVE SortByCombined(_, _)
SortByCombined(sorted, rest) ==
    IF rest = <<>> THEN sorted
    ELSE SortByCombined(InsertSorted(sorted, Head(rest)), Tail(rest))

\* The formatted result list; the top_k truncation is commented out.
FormatResults(sorted, top_k) ==
    [i \in 1..Len(sorted) |->
        [text |-> sorted[i].text, score |-> sorted[i].combined_score,
         vector_score |-> sorted[i].vector_score, text_score |-> sorted[i].text_score]]

\* What a leg contributes: nothing when disabled or when its search raised
\* (the exception is caught and logged).
LegResults(enabled, leg) == IF enabled /\ ~leg.raised THEN leg.results ELSE <<>>

\* Slip: the BM25 leg's exception is re-raised out of search.
SearchRaisesOnBM25(cfg, vec, txt) == cfg.enable_text_search /\ txt.raised

\* Whether search itself raises: both legs run under try/except Exception.
SearchRaises(cfg, vec, txt) == FALSE

\* One call of search(query, top_k, score_threshold); vec and txt are the
\* outcomes of the two legs' searches.
HybridSearch(top_k, vec, txt) ==
    /\ h_status = "idle"
    /\ h_top_k' = top_k
    /\ h_vec' = vec
    /\ h_txt' = txt
    /\ IF SearchRaises(h_config, vec, txt)
       THEN /\ h_status' = "error"
            /\ h_out' = <<>>
       ELSE LET vector_results == LegResults(h_config.enable_vector_search, vec)
                text_results == LegResults(h_config.enable_text_search, txt)
                combined == ProcessText(ProcessVector(<<>>, vector_results, h_config),
                                        text_results, h_config)
            IN  /\ h_status' = "ok"
                /\ h_out' = FormatResults(SortByCombined(<<>>, combined), top_k)
    /\ UNCHANGED <<h_config, exceptHybrid>>

\* Result lists a leg asked for top_k * 2 candidates can return.
LegLists(Scores, top_k) ==
    SeqsUpTo([text : Texts, score : Scores], Min(MaxLeg, 2 * top_k))

LegOutcomes(Scores, top_k) ==
    {[raised |-> TRUE, results |-> <<>>]} \cup
    {[raised |-> FALSE, results |-> r] : r \in LegLists(Scores, top_k)}

HybridSearchCall ==
    /\ h_status = "idle"
    /\ \E top_k \in 1..2 :
       \E vec \in LegOutcomes(VectorScores, top_k), txt \in LegOutcomes(BM25Scores, top_k) :
          HybridSearch(top_k, vec, txt)

HybridSearchReturn ==
    /\ h_status # "idle"
    /\ h_status' = "idle"
    /\ h_top_k' = 0
    /\ h_vec' = NoLeg
    /\ h_txt' = NoLeg
    /\ h_out' = <<>>
    /\ UNCHANGED <<h_config, exceptHybrid>>

HybridNext == HybridSearchCall \/ HybridSearchReturn

\* What each leg contributed to the search now returning.
VecContrib == LegResults(h_config.enable_vector_search, h_vec)
TxtContrib == LegResults(h_config.enable_text_search, h_txt)
TextsOf(results) == {results[i].text : i \in 1..Len(results)}
ScoresOf(results, x) == {results[i].score : i \in {j \in 1..Len(results) : results[j].text = x}}

\* The vector term of x: min(v, 1.0) * vector_weight for a vector-leg score v
\* of x, 0 when x is not in the vector leg.
VectorTerms(x) ==
    IF x \in TextsOf(VecContrib)
    THEN {Min(v, 100) * h_config.vector_weight : v \in ScoresOf(VecContrib, x)}
    ELSE {0}

\* The text term of x: n(t) * text_weight for a BM25-leg score t of x, with
\* n(t) = min(t/10, 1.0) when t > 1.0, else t; 0 when x is not in the BM25 leg.
TextTerms(x) ==
    IF x \in TextsOf(TxtContrib)
    THEN {(IF t > 100 THEN Min(t \div 10, 100) ELSE t) * h_config.text_weight :
             t \in ScoresOf(TxtContrib, x)}
    ELSE {0}

Descending(out) == \A i \in 1..Len(out) - 1 : out[i].score >= out[i + 1].score

FusedAsWeightedSum ==
    LET found == TextsOf(VecContrib) \cup TextsOf(TxtContrib)
    IN  /\ \A x \in found :
              /\ Cardinality({i \in 1..Len(h_out) : h_out[i].text = x}) = 1
              /\ \A i \in 1..Len(h_out) : h_out[i].text = x =>
                     \E a \in VectorTerms(x), b \in TextTerms(x) : h_out[i].score = a + b
        /\ Len(h_out) = Cardinality(found)
        /\ Descending(h_out)

\* C2: search returns, for every text found by either leg, one entry whose
\* score is min(v, 1.0) * vector_weight + n(t) * text_weight (v, t the text's
\* scores in the vector and BM25 legs, a missing leg contributing 0), in
\* descending score order, and not truncated to top_k.
C2_FusedScores == h_status = "ok" => FusedAsWeightedSum

NoRepeats(results) == \A i, j \in 1..Len(results) : results[i].text = results[j].text => i = j

\* The weighted-sum formula does hold whenever neither leg lists a text twice.
C2_DistinctLegsLemma ==
    (h_status = "ok" /\ NoRepeats(VecContrib) /\ NoRepeats(TxtContrib)) => FusedAsWeightedSum

\* C26: every entry that search returns has score = its reported
\* vector_score * vector_weight + its reported text_score * text_weight,
\* hence score <= vector_weight + text_weight, and each distinct text is in
\* the output exactly once, also when a leg returns a text more than once.
C26_ScoreIsReportedSum ==
    h_status = "ok" =>
        /\ \A i \in 1..Len(h_out) :
              /\ h_out[i].score = h_out[i].vector_score * h_config.vector_weight
                                    + h_out[i].text_score * h_config.text_weight
              /\ h_out[i].score <= 100 * (h_config.vector_weight + h_config.text_weight)
        /\ \A i, j \in 1..Len(h_out) : h_out[i].text = h_out[j].text => i = j

\* What does hold with repeats in the legs: each distinct text is in the
\* output exactly once, and the score is the reported sum whenever the BM25
\* leg lists no text twice (a repeat in the vector leg replaces the entry).
C26_ReportedSumWithoutBM25Repeats ==
    h_status = "ok" =>
        /\ \A i, j \in 1..Len(h_out) : h_out[i].text = h_out[j].text => i = j
        /\ NoRepeats(TxtContrib) =>
              \A i \in 1..Len(h_out) :
                  h_out[i].score = h_out[i].vector_score * h_config.vector_weight
                                    + h_out[i].text_score * h_config.text_weight

\* The worked example: vector {A: 0.9}, text {A: 5.0, B: 8.0}, weights
\* 0.75/0.25 give A = 0.8, B = 0.2, in that order, for top_k = 1.
C2_ExampleReached ==
    /\ h_status = "ok"
    /\ h_top_k = 1
    /\ h_config.vector_weight = 75
    /\ h_vec = [raised |-> FALSE, results |-> <<[text |-> "A", score |-> 90]>>]
    /\ h_txt = [raised |-> FALSE, results |-> <<[text |-> "A", score |-> 500],
                                                [text |-> "B", score |-> 800]>>]
    /\ h_config.enable_vector_search /\ h_config.enable_text_search
    /\ Len(h_out) = 2
    /\ h_out[1].text = "A" /\ h_out[1].score = 8000
    /\ h_out[2].text = "B" /\ h_out[2].score = 2000

VecFailed == h_config.enable_vector_search /\ h_vec.raised
TxtFailed == h_config.enable_text_search /\ h_txt.raised

\* C3: if one leg raises, search does not raise and returns the fused,
\* sorted result of the other leg's results alone (the failed leg
\* contributes no text and no score); if both legs raise it returns [].
C3_LegFailureIsolated ==
    h_status # "idle" =>
        /\ h_status = "ok"
        /\ (VecFailed /\ ~TxtFailed) =>
              /\ {h_out[i].text : i \in 1..Len(h_out)} = TextsOf(TxtContrib)
              /\ \A i \in 1..Len(h_out) :
                    /\ h_out[i].vector_score = 0
                    /\ h_out[i].text_score \in
                          {(IF t > 100 THEN Min(t \div 10, 100) ELSE t) :
                              t \in ScoresOf(h_txt.results, h_out[i].text)}
              /\ Descending(h_out)
        /\ (TxtFailed /\ ~VecFailed) =>
              /\ {h_out[i].text : i \in 1..Len(h_out)} = TextsOf(VecContrib)
              /\ \A i \in 1..Len(h_out) :
                    /\ h_out[i].text_score = 0
                    /\ \E v \in ScoresOf(h_vec.results, h_out[i].text) :
                          h_out[i].score = Min(v, 100) * h_config.vector_weight
              /\ Descending(h_out)
        /\ (VecFailed /\ TxtFailed) => h_out = <<>>

\* The vector leg raised and the BM25 leg's two results came back fused.
C3_Witness ==
    /\ h_status = "ok"
    /\ VecFailed
    /\ h_config.enable_text_search /\ ~h_txt.raised
    /\ Len(h_txt.results) = 2
    /\ h_txt.results[1].text # h_txt.results[2].text
    /\ h_txt.results[1].score < h_txt.results[2].score
    /\ Len(h_out) = 2
    /\ h_out[1].text = h_txt.results[2].text



\* c is exactly the first n items of s, in order.
IsFirstN(c, s, n) ==
    /\ Len(c) = n
    /\ n <= Len(s)
    /\ \A i \in 1..n : c[i] = s[i]

\* C1: in query, top_k defaults to the configured retrieve_top_k when
\* omitted; with use_rerank false the contexts given to the prompt engine are
\* the first min(top_k, #retrieved) candidates in retrieval order; with
\* use_rerank true and more than one candidate they are the first
\* min(rerank_top_n, #reranked) items of the reranker's output; the reranker
\* is never called when use_rerank is false or fewer than two candidates
\* were retrieved.
C1_QueryContextSelection ==
    /\ (q_status # "idle" /\ q_arg_top_k = <<>>) => q_top_k = q_config.retrieve_top_k
    /\ (q_status # "idle" /\ q_arg_top_k # <<>>) => q_top_k = q_arg_top_k[1]
    /\ (q_status = "ok" /\ ~q_use_rerank) =>
           IsFirstN(q_contexts, q_retrieved, Min(q_top_k, Len(q_retrieved)))
    /\ (q_status = "ok" /\ q_use_rerank /\ Len(q_retrieved) > 1) =>
           IsFirstN(q_contexts, q_reranked, Min(q_config.rerank_top_n, Len(q_reranked)))
    /\ (~q_use_rerank \/ Len(q_retrieved) < 2) => q_rerank_calls = 0

\* A reranked query with top_k omitted: three candidates, three reranked
\* results, rerank_top_n = 2 keeps two of them.
C1_Witness ==
    /\ q_status = "ok"
    /\ q_arg_top_k = <<>>
    /\ q_use_rerank
    /\ q_rerank_calls = 1
    /\ Len(q_retrieved) = 3
    /\ q_reranked = <<"B", "A", "B">>
    /\ q_config.rerank_top_n = 2
    /\ q_config.retrieve_top_k = 3
    /\ q_contexts = <<"B", "A">>

(***************************************************************************)
(* RecursiveCharTextChunk                                                  *)
(*                                                                         *)
(* A text is a sequence of one-character strings over {"a", " "}.  Of the  *)
(* default separators ["\n\n", "\n", " ", ""] only " " and "" can match    *)
(* such a text, so the separator list is <<" ", "">>.  The splitter is     *)
(* built with keep_separator=True and strip_whitespace=True.               *)
(***************************************************************************)
\* Largest chunk_size / chunk_overlap / per-call override explored.
MaxChunkSize == 3
\* Longest single input text.
MaxTextLen == 4
\* Longest text inside a two-element input list.
MaxListTextLen == 2

Chars == {"a", " "}
Separators == <<" ", "">>

NoChunker == [chunk_size |-> 0, chunk_overlap |-> 0,
              splitter |-> [size |-> 0, overlap |-> 0, attr |-> <<>>]]
NoCall == [paragraphs |-> <<>>, chunk_size |-> <<>>, metadata |-> <<>>]

\* No chunker has been constructed yet.
ChunkIdle ==
    /\ c_phase = "none"
    /\ c_ctor = [chunk_size |-> 0, chunk_overlap |-> 0]
    /\ c_chunker = NoChunker
    /\ c_call = NoCall
    /\ c_chunks = <<>>

\* Slip: only chunk_overlap > chunk_size is rejected.
CtorRejectsGreaterOnly(chunk_size, chunk_overlap) == chunk_overlap > chunk_size

\* if chunk_overlap >= chunk_size: raise ValueError
CtorRejects(chunk_size, chunk_overlap) == chunk_overlap >= chunk_size

\* RecursiveCharTextChunk(chunk_size, chunk_overlap).  The splitter keeps
\* the sizes it was constructed with; attr is its public chunk_size
\* attribute, which only get_chunks ever assigns.
ChunkerConstruct(chunk_size, chunk_overlap) ==
    /\ c_phase = "none"
    /\ c_ctor' = [chunk_size |-> chunk_size, chunk_overlap |-> chunk_overlap]
    /\ IF CtorRejects(chunk_size, chunk_overlap)
       THEN /\ c_phase' = "ctor_error"
            /\ c_chunker' = NoChunker
       ELSE /\ c_phase' = "ready"
            /\ c_chunker' = [chunk_size |-> chunk_size, chunk_overlap |-> chunk_overlap,
                             splitter |-> [size |-> chunk_size, overlap |-> chunk_overlap,
                                           attr |-> <<>>]]
    /\ UNCHANGED <<c_call, c_chunks, exceptChunk>>

\* not text.strip()
IsBlank(text) == \A i \in 1..Len(text) : text[i] = " "

\* text.strip()
Strip(text) ==
    LET idx == {i \in 1..Len(text) : text[i] # " "}
    IN  IF idx = {} THEN <<>>
        ELSE SubSeq(text, CHOOSE i \in idx : \A j \in idx : i <= j,
                          CHOOSE i \in idx : \A j \in idx : i >= j)

\* The splitter's split on " " with the separator kept at the start of the
\* piece that follows it; empty pieces are dropped.
SplitOnSpace(text) ==
    LET cuts == {i \in 1..Len(text) : text[i] = " "}
        starts == {1} \cup cuts
        endOf(b) == IF \E c \in cuts : c > b
                    THEN (CHOOSE c \in cuts : c > b /\ \A d \in cuts : d > b => c <= d) - 1
                    ELSE Len(text)
        RECURSIVE from(_)
        from(b) == LET e == endOf(b)
                       piece == IF e >= b THEN <<SubSeq(text, b, e)>> ELSE <<>>
                   IN  IF e >= Len(text) THEN piece ELSE piece \o from(e + 1)
    IN  IF text = <<>> THEN <<>> ELSE from(1)

\* The splitter's split on "": one piece per character.
SplitChars(text) == [i \in 1..Len(text) |-> <<text[i]>>]

RECURSIVE TotalLen(_)
TotalLen(pieces) == IF pieces = <<>> THEN 0 ELSE Len(Head(pieces)) + TotalLen(Tail(pieces))

RECURSIVE Concat(_)
Concat(pieces) == IF pieces = <<>> THEN <<>> ELSE Head(pieces) \o Concat(Tail(pieces))

\* _join_docs: the pieces joined and stripped; nothing when that is empty.
JoinDocs(pieces) ==
    LET text == Strip(Concat(pieces)) IN IF text = <<>> THEN <<>> ELSE <<text>>

\* The while loop of _merge_splits: pieces are dropped from the front of the
\* window until it is within the overlap and the next piece fits.
RECURSIVE DropForOverlap(_, _, _, _)
DropForOverlap(current, nextLen, size, overlap) ==
    IF \/ TotalLen(current) > overlap
       \/ (TotalLen(current) + nextLen > size /\ TotalLen(current) > 0)
    THEN DropForOverlap(Tail(current), nextLen, size, overlap)
    ELSE current

\* _merge_splits with an empty joining separator.
RECURSIVE MergeSplits(_, _, _, _, _)
MergeSplits(splits, current, docs, size, overlap) ==
    IF splits = <<>> THEN docs \o JoinDocs(current)
    ELSE LET d == Head(splits)
         IN  IF TotalLen(current) + Len(d) > size /\ Len(current) > 0
             THEN MergeSplits(Tail(splits),
                              Append(DropForOverlap(current, Len(d), size, overlap), d),
                              docs \o JoinDocs(current), size, overlap)
             ELSE MergeSplits(Tail(splits), Append(current, d), docs, size, overlap)

\* _split_text: split on the first separator that occurs in the text, merge
\* the pieces shorter than the size, split the others with the remaining
\* separators (or keep them whole when none is left).
RECURSIVE SplitText(_, _, _, _)
RECURSIVE ProcessSplits(_, _, _, _, _, _)
ProcessSplits(splits, good, final, newSeps, size, overlap) ==
    LET flushed == final \o (IF good # <<>> THEN MergeSplits(good, <<>>, <<>>, size, overlap)
                             ELSE <<>>)
    IN  IF splits = <<>> THEN flushed
        ELSE LET p == Head(splits)
             IN  IF Len(p) < size
                 THEN ProcessSplits(Tail(splits), Append(good, p), final, newSeps, size, overlap)
                 ELSE ProcessSplits(Tail(splits), <<>>,
                                    flushed \o (IF newSeps = <<>> THEN <<p>>
                                                ELSE SplitText(p, newSeps, size, overlap)),
                                    newSeps, size, overlap)

SplitText(text, seps, size, overlap) ==
    IF Head(seps) = " " /\ \E i \in 1..Len(text) : text[i] = " "
    THEN ProcessSplits(SplitOnSpace(text), <<>>, <<>>, Tail(seps), size, overlap)
    ELSE ProcessSplits(SplitChars(text), <<>>, <<>>, <<>>, size, overlap)

\* The size the splitter splits by: the one it was constructed with (line
\* 61).  The attribute get_chunks assigns (lines 92, 130) is not read by it.
SplitterSize(splitter) == splitter.size

\* self._langchain_splitter.create_documents([text]): the page_content of
\* each document.
CreateDocuments(splitter, text) ==
    SplitText(text, Separators, SplitterSize(splitter), splitter.overlap)

\* The chunk_size key of a chunk's metadata: len(page_content), replaced by
\* the caller's chunk_size key when the caller's metadata has one.
RecordedChunkSize(content, metadata) ==
    IF metadata = <<>> THEN Len(content) ELSE metadata[1]

\* The chunks of one input text.
ChunksOfText(splitter, text, idx, metadata) ==
    LET docs == CreateDocuments(splitter, text)
    IN  [d \in 1..Len(docs) |->
            [text |-> docs[d], chunk_index |-> d - 1, source_index |-> idx,
             chunk_size |-> RecordedChunkSize(docs[d], metadata)]]

\* The loop over the paragraphs; blank texts are skipped.
RECURSIVE AllChunks(_, _, _, _)
AllChunks(splitter, paragraphs, idx, metadata) ==
    IF idx > Len(paragraphs) THEN <<>>
    ELSE (IF IsBlank(paragraphs[idx]) THEN <<>>
          ELSE ChunksOfText(splitter, paragraphs[idx], idx - 1, metadata))
         \o AllChunks(splitter, paragraphs, idx + 1, metadata)

\* get_chunks(paragraphs, chunk_size, metadata).  paragraphs is the list (a
\* str is a one-element list); chunk_size is <<>> or <<override>>; metadata
\* is <<>> or <<v>>, v the caller's "chunk_size" key.  With an override,
\* self.chunk_size and the splitter's attribute are set for the call and
\* restored in the finally block.
GetChunks(paragraphs, chunk_size, metadata) ==
    /\ c_phase = "ready"
    /\ c_phase' = "returned"
    /\ c_call' = [paragraphs |-> paragraphs, chunk_size |-> chunk_size, metadata |-> metadata]
    /\ LET during ==
               IF chunk_size = <<>> THEN c_chunker
               ELSE [c_chunker EXCEPT !.chunk_size = chunk_size[1],
                                      !.splitter.attr = chunk_size]
           after ==
               IF chunk_size = <<>> THEN c_chunker
               ELSE [c_chunker EXCEPT !.splitter.attr = <<c_chunker.chunk_size>>]
       IN  /\ c_chunks' = AllChunks(during.splitter, paragraphs, 1, metadata)
           /\ c_chunker' = after
    /\ UNCHANGED <<c_ctor, exceptChunk>>

GetChunksReturn ==
    /\ c_phase = "returned"
    /\ c_phase' = "ready"
    /\ c_call' = NoCall
    /\ c_chunks' = <<>>
    /\ UNCHANGED <<c_ctor, c_chunker, exceptChunk>>

InputTexts(n) == SeqsUpTo(Chars, n)

InputParagraphs ==
    {<<t>> : t \in InputTexts(MaxTextLen)} \cup
    {<<t, u>> : t \in InputTexts(MaxListTextLen), u \in InputTexts(MaxListTextLen)}

\* A value a caller may pass under the metadata key "chunk_size".
CallerChunkSizeValues == {99}

ChunkerConstructCall ==
    /\ c_phase = "none"
    /\ \E chunk_size \in 1..MaxChunkSize, chunk_overlap \in 0..MaxChunkSize :
          ChunkerConstruct(chunk_size, chunk_overlap)

GetChunksCall ==
    /\ c_phase = "ready"
    /\ \E paragraphs \in InputParagraphs,
          chunk_size \in {<<>>} \cup {<<n>> : n \in 1..MaxChunkSize},
          metadata \in {<<>>} \cup {<<v>> : v \in CallerChunkSizeValues} :
          GetChunks(paragraphs, chunk_size, metadata)

ChunkNext == ChunkerConstructCall \/ GetChunksCall \/ GetChunksReturn

\* C4: constructing the chunker with chunk_overlap >= chunk_size always
\* fails with ValueError and produces no chunker; with chunk_overlap <
\* chunk_size construction succeeds.
C4_OverlapRejected ==
    c_phase # "none" =>
        /\ c_ctor.chunk_overlap >= c_ctor.chunk_size =>
              (c_phase = "ctor_error" /\ c_chunker = NoChunker)
        /\ c_ctor.chunk_overlap < c_ctor.chunk_size =>
              /\ c_phase \in {"ready", "returned"}
              /\ c_chunker.chunk_size = c_ctor.chunk_size
              /\ c_chunker.chunk_overlap = c_ctor.chunk_overlap

\* The boundary pair (chunk_size = chunk_overlap = 2) was rejected.
C4_Witness ==
    /\ c_phase = "ctor_error"
    /\ c_ctor = [chunk_size |-> 2, chunk_overlap |-> 2]
    /\ c_chunker = NoChunker

\* The effective chunk size of the call that has returned: the override if
\* one was supplied, otherwise the configured size.
EffectiveChunkSize ==
    IF c_call.chunk_size = <<>> THEN c_chunker.chunk_size ELSE c_call.chunk_size[1]

ChunkSizeRecorded ==
    \A i \in 1..Len(c_chunks) :
        /\ c_chunks[i].chunk_size = Len(c_chunks[i].text)
        /\ c_chunks[i].chunk_size <= EffectiveChunkSize

\* C5: for every get_chunks call (any input, any caller metadata, with or
\* without a chunk_size override) every returned chunk's metadata chunk_size
\* equals the length of the chunk's text and is at most the effective chunk
\* size of the call.
C5_ChunkSizeMetadata == c_phase = "returned" => ChunkSizeRecorded

\* The same statement restricted to calls without an override and without a
\* caller "chunk_size" key holds.
C5_PlainCallLemma ==
    (c_phase = "returned" /\ c_call.chunk_size = <<>> /\ c_call.metadata = <<>>)
        => ChunkSizeRecorded

\* Each deviation alone breaks the statement: an override alone ...
C5_OverrideOnly ==
    (c_phase = "returned" /\ c_call.metadata = <<>>) => ChunkSizeRecorded

\* ... and a caller "chunk_size" key alone.
C5_CallerKeyOnly ==
    (c_phase = "returned" /\ c_call.chunk_size = <<>>) => ChunkSizeRecorded

(***************************************************************************)
(* POST /chat/query-stream                                                 *)
(***************************************************************************)
\* Longest fragment sequence the LLM iterator yields.
MaxFragments == 3

\* Values of result["answer"] in a streamed line; "" is an empty answer.
Fragments == {"", "he", "llo"}

\* No request has been received.
StreamIdle ==
    /\ s_phase = "idle"
    /\ s_source = [pending |-> <<>>, raises |-> FALSE]
    /\ s_yielded = <<>>
    /\ s_events = <<>>

\* Slip: the truthiness test on the fragment is dropped.
EmitsChunkAlways(fragment) == TRUE

\* if chunk: a chunk event is written only for a non-empty fragment.
EmitsChunk(fragment) == fragment # ""

\* The handler up to the StreamingResponse: a blank query is answered 400,
\* an exception of pipeline.query 500; otherwise the response starts
\* streaming from the iterator query returned, which will yield the pending
\* fragments and then either end or raise.
StreamRequest ==
    /\ s_phase = "idle"
    /\ \E blank \in BOOLEAN, queryRaises \in BOOLEAN,
          pending \in SeqsUpTo(Fragments, MaxFragments), raises \in BOOLEAN :
          /\ s_phase' = IF blank THEN "rejected"
                        ELSE IF queryRaises THEN "failed" ELSE "streaming"
          /\ s_source' = IF blank \/ queryRaises THEN s_source
                         ELSE [pending |-> pending, raises |-> raises]
    /\ UNCHANGED <<s_yielded, s_events, exceptStream>>

\* One iteration of "for chunk in response_generator".
StreamFragment ==
    /\ s_phase = "streaming"
    /\ s_source.pending # <<>>
    /\ LET chunk == Head(s_source.pending)
       IN  /\ s_yielded' = Append(s_yielded, chunk)
           /\ s_events' = IF EmitsChunk(chunk)
                          THEN Append(s_events, [kind |-> "chunk", data |-> chunk])
                          ELSE s_events
    /\ s_source' = [s_source EXCEPT !.pending = Tail(@)]
    /\ UNCHANGED <<s_phase, exceptStream>>

\* The iterator is exhausted (a done event) or raises (an error event); the
\* generator returns.
StreamEnd ==
    /\ s_phase = "streaming"
    /\ s_source.pending = <<>>
    /\ s_events' = Append(s_events, [kind |-> IF s_source.raises THEN "error" ELSE "done",
                                     data |-> ""])
    /\ s_phase' = "closed"
    /\ UNCHANGED <<s_source, s_yielded, exceptStream>>

StreamNext == StreamRequest \/ StreamFragment \/ StreamEnd

RECURSIVE ChunkEvents(_, _)
ChunkEvents(fragments, skipEmpty) ==
    IF fragments = <<>> THEN <<>>
    ELSE (IF skipEmpty /\ Head(fragments) = "" THEN <<>>
          ELSE <<[kind |-> "chunk", data |-> Head(fragments)]>>)
         \o ChunkEvents(Tail(fragments), skipEmpty)

StreamShape(skipEmpty) ==
    /\ s_phase = "streaming" => s_events = ChunkEvents(s_yielded, skipEmpty)
    /\ s_phase = "closed" =>
          /\ Len(s_events) >= 1
          /\ SubSeq(s_events, 1, Len(s_events) - 1) = ChunkEvents(s_yielded, skipEmpty)
          /\ s_events[Len(s_events)].kind = (IF s_source.raises THEN "error" ELSE "done")
    /\ s_phase \in {"idle", "rejected", "failed"} => s_events = <<>>

\* C6 as stated: once streaming has begun the events are one chunk event per
\* fragment the LLM iterator yielded, in order, then exactly one terminal
\* event (done if the iterator was exhausted, error if it raised) and
\* nothing after it.
C6_OneChunkPerFragment == StreamShape(FALSE)

\* C6 amended: one chunk event per NON-EMPTY fragment yielded, in order (an
\* empty fragment produces no event), then exactly one terminal event and
\* nothing after it.
C6_OneChunkPerNonEmptyFragment == StreamShape(TRUE)

\* A stream that skipped an empty fragment, emitted two chunks and ended with
\* an error event.
C6_Witness ==
    /\ s_phase = "closed"
    /\ s_yielded = <<"he", "", "llo">>
    /\ s_source.raises
    /\ Len(s_events) = 3
    /\ s_events[3].kind = "error"

(***************************************************************************)
(* get_pipeline: the lazily constructed pipeline of each route group       *)
(*                                                                         *)
(* get_pipeline is a plain (non-async) dependency, so each request runs it *)
(* on a worker thread: the test of _pipeline, the construction and         *)
(* assignment, and the final read are separate steps of a request.         *)
(***************************************************************************)
\* Number of requests in flight at once.
MaxRequests == 2

Requests == 1..MaxRequests
Groups == {"documents", "chat"}

NoRequest == [pc |-> "idle", group |-> "documents", sawNone |-> FALSE,
              built |-> FALSE, result |-> 0]

\* The process has started: both globals are None.
PipeIdle ==
    /\ p_cached = [g \in Groups |-> 0]
    /\ p_built = [g \in Groups |-> 0]
    /\ p_req = [r \in Requests |-> NoRequest]

\* Slip: the pipeline is constructed on every call.
MustConstructAlways(cached) == TRUE

\* if _pipeline is None
MustConstruct(cached) == cached = 0

\* A request of group g enters get_pipeline.
PipeEnter(r, g) ==
    /\ p_req[r].pc = "idle"
    /\ p_req' = [p_req EXCEPT ![r] = [NoRequest EXCEPT !.pc = "test", !.group = g]]
    /\ UNCHANGED <<p_cached, p_built, exceptPipe>>

\* The test of the global.
PipeTest(r) ==
    /\ p_req[r].pc = "test"
    /\ LET none == MustConstruct(p_cached[p_req[r].group])
       IN  p_req' = [p_req EXCEPT ![r].sawNone = (p_cached[p_req[r].group] = 0),
                                  ![r].pc = IF none THEN "construct" ELSE "return"]
    /\ UNCHANGED <<p_cached, p_built, exceptPipe>>

\* _pipeline = RAGPipeline(config): the object is built and assigned to the
\* group's global, or the constructor raises and the request fails.
PipeConstruct(r) ==
    /\ p_req[r].pc = "construct"
    /\ LET g == p_req[r].group
       IN  \/ /\ p_built' = [p_built EXCEPT ![g] = @ + 1]
              /\ p_cached' = [p_cached EXCEPT ![g] = p_built[g] + 1]
              /\ p_req' = [p_req EXCEPT ![r].built = TRUE, ![r].pc = "return"]
           \/ /\ p_req' = [p_req EXCEPT ![r].pc = "failed"]
              /\ UNCHANGED <<p_cached, p_built>>
    /\ UNCHANGED exceptPipe

\* return _pipeline: the global is read again.
PipeReturn(r) ==
    /\ p_req[r].pc = "return"
    /\ p_req' = [p_req EXCEPT ![r].result = p_cached[p_req[r].group], ![r].pc = "done"]
    /\ UNCHANGED <<p_cached, p_built, exceptPipe>>

PipeNext ==
    \E r \in Requests :
        \/ \E g \in Groups : PipeEnter(r, g)
        \/ PipeTest(r)
        \/ PipeConstruct(r)
        \/ PipeReturn(r)

Returned(g) == {r \in Requests : p_req[r].pc = "done" /\ p_req[r].group = g}
SawNone(g) == {r \in Requests : p_req[r].group = g /\ p_req[r].sawNone}

\* C7 as stated: under any interleaving the group's pipeline is constructed
\* once and cached thereafter; every get_pipeline call returns the same
\* instance.
C7_ConstructedOnce ==
    \A g \in Groups :
        /\ p_built[g] <= 1
        /\ \A r1, r2 \in Returned(g) : p_req[r1].result = p_req[r2].result

\* C7 amended: a call that finds its group's pipeline cached constructs
\* nothing; only calls that tested the global while it was still None
\* construct, one pipeline each, and each assigns its own to the global (so
\* overlapping first uses may construct several and replace the cached one);
\* every call returns an instance constructed for its own group; when just
\* one call of a group found None, that group has one instance and every
\* call returns it.
C7_CachedAfterFirstUse ==
    \A g \in Groups :
        /\ \A r \in Requests : p_req[r].built => p_req[r].sawNone
        /\ p_built[g] <= Cardinality(SawNone(g))
        /\ p_cached[g] = p_built[g]
        /\ \A r \in Returned(g) : p_req[r].result \in 1..p_built[g]
        /\ Cardinality(SawNone(g)) <= 1 =>
              (p_built[g] <= 1 /\ \A r \in Returned(g) : p_req[r].result = 1)

\* Two chat requests overlapped on first use: both constructed, and they
\* were handed different instances.
C7_Witness ==
    /\ p_built["chat"] = 2
    /\ p_req[1].pc = "done" /\ p_req[2].pc = "done"
    /\ p_req[1].group = "chat" /\ p_req[2].group = "chat"
    /\ p_req[1].result # p_req[2].result

(***************************************************************************)
(* upload_document: POST /documents/upload                                 *)
(***************************************************************************)
\* Longest file name of an upload.
MaxNameLen == 4

NameChars == {".", "m", "d", "M", "x"}

FileNames == SeqsUpTo(NameChars, MaxNameLen)

allowed_extensions ==
    { <<".", "m", "d">>, <<".", "t", "x", "t">>, <<".", "p", "d", "f">>,
      <<".", "d", "o", "c", "x">>, <<".", "h", "t", "m", "l">> }

\* Path(name).suffix: the text from the last dot on, when that dot is
\* neither the first nor the last character of the name; else empty.
Suffix(name) ==
    LET dots == {i \in 1..Len(name) : name[i] = "."}
    IN  IF dots = {} THEN <<>>
        ELSE LET i == CHOOSE d \in dots : \A e \in dots : e <= d
             IN  IF 1 < i /\ i < Len(name) THEN SubSeq(name, i, Len(name))
                 ELSE <<>>

\* str.lower() on the characters of the model.
Lower(s) ==
    LET lower == [M |-> "m", D |-> "d", E |-> "e", X |-> "x", I |-> "i",
                  T |-> "t", Q |-> "q", H |-> "h", L |-> "l", P |-> "p"]
    IN  [i \in 1..Len(s) |-> IF s[i] \in DOMAIN lower THEN lower[s[i]] ELSE s[i]]

UploadIdle ==
    /\ u_phase = "idle"
    /\ u_filename = <<>>
    /\ u_status = 0
    /\ u_tmp = "none"
    /\ u_calls = 0

\* Slip: the temporary file is removed only after a successful run.
FinallyOnSuccessOnly(raised, tmp) ==
    IF ~raised /\ tmp = "exists" THEN "deleted" ELSE tmp

\* finally: if os.path.exists(tmp_file.name): os.unlink(tmp_file.name)
Finally(raised, tmp) == IF tmp = "exists" THEN "deleted" ELSE tmp

\* The handler up to its first suspension: the two 400 answers, or the
\* temporary file is created and the handler awaits file.read().
UploadDocument(filename) ==
    /\ u_filename' = filename
    /\ u_calls' = 0
    /\ IF filename = <<>> \/ Lower(Suffix(filename)) \notin allowed_extensions
       THEN u_status' = 400 /\ u_tmp' = "none" /\ u_phase' = "done"
       ELSE u_status' = 0 /\ u_tmp' = "exists" /\ u_phase' = "reading"
    /\ UNCHANGED exceptUpload

UploadRequest ==
    /\ u_phase = "idle"
    /\ \E filename \in FileNames : UploadDocument(filename)

\* The rest of the handler: the content is written (which may raise),
\* process_file runs (and may raise), the response is 200 or 500, and the
\* finally block runs before the handler is left.
UploadProcess ==
    /\ u_phase = "reading"
    /\ \E writeRaises, processRaises \in BOOLEAN :
          LET raised == writeRaises \/ processRaises
          IN  /\ u_calls' = IF writeRaises THEN u_calls ELSE u_calls + 1
              /\ u_status' = IF raised THEN 500 ELSE 200
              /\ u_tmp' = Finally(raised, u_tmp)
    /\ u_phase' = "done"
    /\ UNCHANGED <<u_filename, exceptUpload>>

UploadReturn ==
    /\ u_phase = "done"
    /\ u_phase' = "idle"
    /\ u_filename' = <<>>
    /\ u_status' = 0
    /\ u_tmp' = "none"
    /\ u_calls' = 0
    /\ UNCHANGED exceptUpload

UploadNext == UploadRequest \/ UploadProcess \/ UploadReturn

\* A name passes the gate when it ends, in any letter case, with a dot and
\* one of the allowed extensions, and has something before that dot.
EndsWithAllowed(name) ==
    \E ext \in allowed_extensions :
        /\ Len(name) > Len(ext)
        /\ Lower(SubSeq(name, Len(name) - Len(ext) + 1, Len(name))) = ext

\* C8: a request with a missing file name or an extension outside the
\* allowed set is answered 400 with no temporary file created and no
\* process_file call; for every other request the temporary file is gone
\* when the handler finishes, with 200 when process_file succeeded and 500
\* when it raised.
C8_UploadGateAndCleanup ==
    /\ u_phase = "done" =>
          IF u_filename = <<>> \/ ~EndsWithAllowed(u_filename)
          THEN u_status = 400 /\ u_tmp = "none" /\ u_calls = 0
          ELSE u_status \in {200, 500} /\ u_tmp = "deleted" /\ u_calls <= 1
    /\ u_phase = "reading" => u_filename # <<>> /\ EndsWithAllowed(u_filename)
    /\ u_status = 200 => u_calls = 1

\* An upload named with an upper-case extension was processed, process_file
\* raised, and the handler finished with 500.
C8_Witness ==
    /\ u_phase = "done"
    /\ u_status = 500
    /\ u_calls = 1
    /\ u_tmp = "deleted"
    /\ u_filename = <<"x", ".", "M", "d">>

(***************************************************************************)
(* chat_interaction: the interactive chat loop of the command line         *)
(***************************************************************************)
\* Number of turns of a session that are explored.
MaxTurns == 3

\* The lines typed: "exit", "EXIT", " quit ", "Quit", "help", " HELP", "",
\* "  ", "hi", "exits", "e xit".
ChatLines ==
    { <<"e", "x", "i", "t">>, <<"E", "X", "I", "T">>,
      <<" ", "q", "u", "i", "t", " ">>, <<"Q", "u", "i", "t">>,
      <<"h", "e", "l", "p">>, <<" ", "H", "E", "L", "P">>,
      <<>>, <<" ", " ">>,
      <<"h", "i">>, <<"e", "x", "i", "t", "s">>, <<"e", " ", "x", "i", "t">> }

\* What input() does: returns a line, or raises one of the two.
InputEvents == {"line", "KeyboardInterrupt", "EOFError"}

\* What the query step does: the answer is printed, pipeline.query raises
\* an Exception, printing a streamed fragment raises an Exception, or the
\* user interrupts it.
QueryOutcomes == {"answered", "query_raises", "print_raises", "interrupted"}

NoTurn == [event |-> "none", line |-> <<>>, queries |-> 0, outcome |-> "none"]

\* chat_interaction has not been called.
ChatIdle ==
    /\ k_phase = "stopped"
    /\ k_turns = 0
    /\ k_calls = 0
    /\ k_last = NoTurn
    /\ k_end = "none"

\* Slip: the try block covers only the pipeline.query call.
CaughtQueryOnly(outcome) == outcome = "query_raises"

\* except Exception around the query and the printing of its answer.
CaughtPerTurn(outcome) == outcome \in {"query_raises", "print_raises"}

\* One pass of the while loop, from input() to the continue or break.
\* The result is <<phase, end, queries, outcome>>.
Turn(event, line, outcome) ==
    LET user_input == Strip(line)
        cmd == Lower(user_input)
    IN  CASE event = "KeyboardInterrupt" -> <<"ended", "interrupt", 0, "none">>
          [] event = "EOFError" -> <<"ended", "eof", 0, "none">>
          [] OTHER ->
               IF cmd \in {<<"e", "x", "i", "t">>, <<"q", "u", "i", "t">>}
               THEN <<"ended", "exit", 0, "none">>
               ELSE IF cmd = <<"h", "e", "l", "p">> \/ user_input = <<>>
               THEN <<"reading", "none", 0, "none">>
               ELSE IF outcome = "answered" \/ CaughtPerTurn(outcome)
               THEN <<"reading", "none", 1, outcome>>
               ELSE IF outcome = "interrupted"
               THEN <<"ended", "interrupt", 1, outcome>>
               ELSE <<"ended", "error", 1, outcome>>

\* The session starts: the pipeline is created, or creating it raises and
\* the function returns before the loop.
ChatStart ==
    /\ k_phase # "reading"
    /\ \E loadRaises \in BOOLEAN :
          /\ k_phase' = IF loadRaises THEN "ended" ELSE "reading"
          /\ k_end' = IF loadRaises THEN "init_error" ELSE "none"
    /\ k_turns' = 0
    /\ k_calls' = 0
    /\ k_last' = NoTurn
    /\ UNCHANGED exceptChat

ChatTurn ==
    /\ k_phase = "reading"
    /\ k_turns < MaxTurns
    /\ \E event \in InputEvents, line \in ChatLines, outcome \in QueryOutcomes :
          LET t == Turn(event, line, outcome)
          IN  /\ k_phase' = t[1]
              /\ k_end' = t[2]
              /\ k_calls' = k_calls + t[3]
              /\ k_last' = [event |-> event,
                            line |-> IF event = "line" THEN line ELSE <<>>,
                            queries |-> t[3], outcome |-> t[4]]
    /\ k_turns' = k_turns + 1
    /\ UNCHANGED exceptChat

ChatNext == ChatStart \/ ChatTurn

\* The words of the claim, spelled against the typed line.
IsWord(line, word) == Lower(Strip(line)) = word
IsExitLine(line) == IsWord(line, <<"e", "x", "i", "t">>) \/ IsWord(line, <<"q", "u", "i", "t">>)
IsHelpLine(line) == IsWord(line, <<"h", "e", "l", "p">>)
IsBlankLine(line) == \A i \in 1..Len(line) : line[i] = " "

\* C9: once the loop runs, the session ends only on exit or quit in any
\* letter case, on a keyboard interrupt, or on end of input; after any
\* other line the loop reads again; a blank line and help call Query zero
\* times, any other line exactly once, and an Exception raised by Query or
\* while printing the streamed answer does not end the session.
C9_ChatLoop ==
    k_turns > 0 =>
        /\ k_phase = "ended" <=>
              \/ k_last.event \in {"KeyboardInterrupt", "EOFError"}
              \/ k_last.event = "line" /\ IsExitLine(k_last.line)
              \/ k_last.outcome = "interrupted"
        /\ k_phase \in {"ended", "reading"}
        /\ k_last.event = "line" =>
              k_last.queries =
                 IF IsExitLine(k_last.line) \/ IsHelpLine(k_last.line)
                    \/ IsBlankLine(k_last.line)
                 THEN 0 ELSE 1
        /\ k_last.event # "line" => k_last.queries = 0
        /\ k_last.outcome \in {"query_raises", "print_raises"} => k_phase = "reading"

\* Printing a streamed answer raised in the second turn and the loop is
\* reading again, having called Query in both turns.
C9_Witness ==
    /\ k_phase = "reading"
    /\ k_turns = 2
    /\ k_calls = 2
    /\ k_last.outcome = "print_raises"
    /\ k_last.line = <<"e", "x", "i", "t", "s">>

(***************************************************************************)
(* DocumentProcessingPipeline.process_directory                            *)
(***************************************************************************)
\* Most files a directory listing matches.
MaxFiles == 2

Paths == {"a.md", "b.md", "c.md"}

\* directory.rglob(file_pattern): distinct paths in some order.
Listings ==
    {f \in SeqsUpTo(Paths, MaxFiles) : \A i, j \in 1..Len(f) : i # j => f[i] # f[j]}

\* process_file returns a list of chunks or raises.
ProcessFileOutcomes ==
    {[kind |-> "raised", chunks |-> <<>>]} \cup
    {[kind |-> "ok", chunks |-> c] : c \in {<<>>, <<"c1">>, <<"c1", "c2">>}}

NotAttempted == [kind |-> "none", chunks |-> <<>>]

DirIdle ==
    /\ d_phase = "idle"
    /\ d_exists = TRUE
    /\ d_files = <<>>
    /\ d_idx = 0
    /\ d_returned = [p \in Paths |-> NotAttempted]
    /\ d_attempts = [p \in Paths |-> 0]
    /\ d_results = {}

\* results[key] = value on a dict held as a set of <<key, value>> pairs.
DictAssign(results, key, value) ==
    {e \in results : e[1] # key} \cup {<<key, value>>}

\* Slip: a file that failed is recorded with an empty chunk list.
AfterFailureRecorded(results, path) == DictAssign(results, path, <<>>)

\* except Exception: failed_files += 1; continue. The dict is left alone.
AfterFailure(results, path) == results

\* The call up to the loop: a missing directory raises, an empty listing
\* returns {} at once.
ProcessDirectory(exists, files) ==
    /\ d_exists' = exists
    /\ d_files' = IF exists THEN files ELSE <<>>
    /\ d_phase' = IF ~exists THEN "raised"
                  ELSE IF files = <<>> THEN "done" ELSE "looping"
    /\ UNCHANGED <<d_idx, d_returned, d_attempts, d_results, exceptDir>>

ProcessDirectoryCall ==
    /\ d_phase = "idle"
    /\ \E exists \in BOOLEAN, files \in Listings : ProcessDirectory(exists, files)

\* One pass of the for loop; after the last file the call returns results.
ProcessDirectoryStep ==
    /\ d_phase = "looping"
    /\ \E outcome \in ProcessFileOutcomes :
          LET path == d_files[d_idx + 1]
          IN  /\ d_attempts' = [d_attempts EXCEPT ![path] = @ + 1]
              /\ d_returned' = [d_returned EXCEPT ![path] = outcome]
              /\ d_results' = IF outcome.kind = "ok"
                              THEN DictAssign(d_results, path, outcome.chunks)
                              ELSE AfterFailure(d_results, path)
    /\ d_idx' = d_idx + 1
    /\ d_phase' = IF d_idx + 1 = Len(d_files) THEN "done" ELSE "looping"
    /\ UNCHANGED <<d_exists, d_files, exceptDir>>

ProcessDirectoryReturn ==
    /\ d_phase \in {"done", "raised"}
    /\ d_phase' = "idle"
    /\ d_exists' = TRUE
    /\ d_files' = <<>>
    /\ d_idx' = 0
    /\ d_returned' = [p \in Paths |-> NotAttempted]
    /\ d_attempts' = [p \in Paths |-> 0]
    /\ d_results' = {}
    /\ UNCHANGED exceptDir

DirNext == ProcessDirectoryCall \/ ProcessDirectoryStep \/ ProcessDirectoryReturn

Matched == {d_files[i] : i \in 1..Len(d_files)}

\* C10: whichever process_file calls raise, the call on an existing
\* directory does not raise, every matched file is attempted exactly once,
\* and the returned mapping has exactly the files whose process_file
\* succeeded, each with the chunk list that its own call returned.
C10_PerFileIsolation ==
    /\ d_phase = "raised" => ~d_exists
    /\ \A p \in Paths : d_attempts[p] <= 1
    /\ d_phase = "done" =>
          /\ \A p \in Paths : d_attempts[p] = IF p \in Matched THEN 1 ELSE 0
          /\ {e[1] : e \in d_results} = {p \in Matched : d_returned[p].kind = "ok"}
          /\ \A e \in d_results : e[2] = d_returned[e[1]].chunks
          /\ \A e1, e2 \in d_results : e1[1] = e2[1] => e1 = e2

\* A listing of two files has been gone through: the first raised, the
\* second returned two chunks and is the only entry of the mapping.
C10_Witness ==
    /\ d_phase = "done"
    /\ Len(d_files) = 2
    /\ d_returned[d_files[1]].kind = "raised"
    /\ d_results = {<<d_files[2], <<"c1", "c2">>>>}

(***************************************************************************)
(* RAGPipeline.update_config and DocumentProcessingPipeline.update_config  *)
(***************************************************************************)
\* Number of update_config calls that are explored.
MaxUpdates == 3

\* Largest value passed for a configuration key.
MaxConfigValue == 3

\* A component of the preprocessing pipeline: the call that built it (0 is
\* the constructor of the pipeline) and the configuration it was built from.
Built(n, config) == [build |-> n, from |-> config]

\* The configuration the pipelines are constructed with: chunk_size 2,
\* chunk_overlap 1, and the vector database URL number 0.
ConstructedConfig == [chunk_size |-> 2, chunk_overlap |-> 1, vector_db_url |-> 0]

\* RAGPipeline.__init__: both pipelines hold the configuration, and the RAG
\* pipeline takes its vector_store from the preprocessing pipeline and
\* passes it to the retriever it creates.
UpdateIdle ==
    LET config == ConstructedConfig
    IN  /\ uc_config = [rag |-> config, pre |-> config]
        /\ uc_pre = [parser |-> Built(0, config), chunker |-> Built(0, config),
                     embedding |-> Built(0, config), vector |-> Built(0, config)]
        /\ uc_rag = [vector_store |-> Built(0, config),
                     retriever |-> [vector_store |-> Built(0, config)]]
        /\ uc_n = 0
        /\ uc_last = [key |-> "none", value |-> 0, overlap |-> 1, raised |-> FALSE]

\* for key, value in kwargs.items(): if hasattr(config, key): setattr(...)
SetAttr(config, key, value) ==
    IF key \in DOMAIN config THEN [config EXCEPT ![key] = value] ELSE config

\* Slip: only the parser is built again.
ReinitParserOnly(pre, config, n) == [pre EXCEPT !.parser = Built(n, config)]

\* self.__init__(self.config): the parser, the chunker, the embedding
\* provider and the vector store are built in that order; the chunker's
\* constructor raises when the overlap is not below the size, which leaves
\* the three later components as they were.
Reinit(pre, config, n) ==
    IF CtorRejects(config.chunk_size, config.chunk_overlap)
    THEN [pre EXCEPT !.parser = Built(n, config)]
    ELSE [parser |-> Built(n, config), chunker |-> Built(n, config),
          embedding |-> Built(n, config), vector |-> Built(n, config)]

\* RAGPipeline.update_config(key=value): the configuration is set, the
\* preprocessing pipeline is updated, and the LLM and the reranker are
\* created again; vector_store and retriever are not assigned.
UpdateConfig(key, value) ==
    LET rag == SetAttr(uc_config.rag, key, value)
        pre == SetAttr(uc_config.pre, key, value)
    IN  /\ uc_config' = [rag |-> rag, pre |-> pre]
        /\ uc_pre' = Reinit(uc_pre, pre, uc_n + 1)
        /\ uc_rag' = uc_rag
        /\ uc_n' = uc_n + 1
        /\ uc_last' = [key |-> key, value |-> value,
                       overlap |-> uc_config.pre.chunk_overlap,
                       raised |-> CtorRejects(pre.chunk_size, pre.chunk_overlap)]
        /\ UNCHANGED exceptUpdate

UpdateNext ==
    /\ uc_n < MaxUpdates
    /\ \E key \in {"chunk_size", "chunk_overlap", "vector_db_url", "unknown_key"},
          value \in 0..MaxConfigValue : UpdateConfig(key, value)

\* C11: after update_config(chunk_size=v) with v above the configured
\* chunk_overlap, the call has not raised, chunk_size is v in the
\* configuration of both pipelines and in the chunker, and the parser, the
\* chunker, the embedding provider and the vector store of the
\* preprocessing pipeline were all built by this call from the updated
\* configuration.
C11_UpdateRebuilds ==
    (uc_last.key = "chunk_size" /\ uc_last.value > uc_last.overlap) =>
        /\ ~uc_last.raised
        /\ uc_config.rag.chunk_size = uc_last.value
        /\ uc_config.pre.chunk_size = uc_last.value
        /\ uc_pre.chunker.from.chunk_size = uc_last.value
        /\ \A c \in {"parser", "chunker", "embedding", "vector"} :
              uc_pre[c] = Built(uc_n, uc_config.pre)

\* The third call sets chunk_size to 3 over an overlap of 2, after a call
\* whose chunker construction failed.
C11_Witness ==
    /\ uc_n = 3
    /\ uc_last = [key |-> "chunk_size", value |-> 3, overlap |-> 2, raised |-> FALSE]
    /\ uc_pre.chunker = Built(3, [chunk_size |-> 3, chunk_overlap |-> 2, vector_db_url |-> 0])

\* C28: after any sequence of update_config calls, the vector store that
\* queries use (the RAG pipeline's vector_store, which its retriever
\* holds) is the instance that ingestion writes to (the preprocessing
\* pipeline's), built from the current vector_db_url.
C28_QueryStoreIsIngestionStore ==
    /\ uc_rag.vector_store = uc_pre.vector
    /\ uc_rag.retriever.vector_store = uc_pre.vector
    /\ uc_rag.vector_store.from.vector_db_url = uc_config.rag.vector_db_url

\* What does hold: queries always use the store built by the constructor,
\* which is the ingestion store only until the first update_config call
\* that gets as far as building a new store.
C28_QueryStoreIsConstructionStore ==
    /\ uc_rag.vector_store = Built(0, ConstructedConfig)
    /\ uc_rag.retriever.vector_store = Built(0, ConstructedConfig)
    /\ uc_rag.vector_store = uc_pre.vector <=> uc_pre.vector.build = 0

\* C29: an update_config call that fails leaves the configuration and the
\* parser, chunker, embedding provider and vector store as they were, so
\* after every call, failed or not, the chunker's chunk_size and
\* chunk_overlap are those of the configuration.
C29_FailedUpdateChangesNothing ==
    /\ [][(uc_n' = uc_n + 1 /\ uc_last'.raised) =>
            (uc_config' = uc_config /\ uc_pre' = uc_pre)]_vars
    /\ [](/\ uc_pre.chunker.from.chunk_size = uc_config.pre.chunk_size
          /\ uc_pre.chunker.from.chunk_overlap = uc_config.pre.chunk_overlap)

\* What does hold: a call that fails has already set the configuration
\* and built a new parser; the chunker, the embedding provider and the
\* vector store are the ones from before the call.
C29_FailedUpdateKeepsLaterComponents ==
    [][(uc_n' = uc_n + 1 /\ uc_last'.raised) =>
          /\ uc_config'.pre = SetAttr(uc_config.pre, uc_last'.key, uc_last'.value)
          /\ uc_pre'.parser = Built(uc_n', uc_config'.pre)
          /\ \A c \in {"chunker", "embedding", "vector"} : uc_pre'[c] = uc_pre[c]]_vars

(***************************************************************************)
(* WeaviateVector: the vector-store adapter                                *)
(***************************************************************************)
\* Number of store_texts calls on one adapter that are explored.
MaxStores == 3

\* Number of queries sent to the database that are counted.
MaxQueries == 6

\* A new adapter on a database without the collection. __init__ ends with
\* self.index = True.
AdapterIdle ==
    /\ w_index = "True"
    /\ w_exists = FALSE
    /\ w_stores = 0
    /\ w_queries = 0
    /\ w_last = [op |-> "init", result |-> "ok"]

\* if self.index is None: raise ValueError("Index not initialized. ...")
NotInitialized(index) == index = "None"

\* WeaviateVector(...): another adapter is constructed on the same database.
AdapterConstruct ==
    /\ w_last.op # "init"
    /\ w_index' = "True"
    /\ w_stores' = 0
    /\ w_queries' = 0
    /\ w_last' = [op |-> "init", result |-> "ok"]
    /\ UNCHANGED <<w_exists, exceptAdapter>>

\* store_texts: the collection is created when missing, then the batch is
\* written or fails. The assignment to self.index at its end is commented
\* out.
StoreTexts ==
    /\ w_stores < MaxStores
    /\ \E batchFails \in BOOLEAN :
          w_last' = [op |-> "store_texts",
                     result |-> IF batchFails THEN "batch_error" ELSE "ok"]
    /\ w_exists' = TRUE
    /\ w_stores' = w_stores + 1
    /\ UNCHANGED <<w_index, w_queries, exceptAdapter>>

\* search embeds the query (which may raise) and calls search_by_vector;
\* search_by_vector sends near_vector to the collection, which the
\* database answers, or rejects when the collection is missing.
AdapterSearch ==
    /\ w_queries < MaxQueries
    /\ \E op \in {"search", "search_by_vector"}, embedRaises \in BOOLEAN :
          LET embedFailed == op = "search" /\ embedRaises
              sent == ~NotInitialized(w_index) /\ ~embedFailed
          IN  /\ w_queries' = IF sent THEN w_queries + 1 ELSE w_queries
              /\ w_last' = [op |-> op,
                            result |-> IF NotInitialized(w_index) THEN "not_initialized"
                                       ELSE IF embedFailed THEN "embed_error"
                                       ELSE IF w_exists THEN "ok" ELSE "db_error"]
    /\ UNCHANGED <<w_index, w_exists, w_stores, exceptAdapter>>

AdapterNext == AdapterConstruct \/ StoreTexts \/ AdapterSearch

\* C12: search or search_by_vector on an adapter on which store_texts has
\* never been called fails with the "not initialized" error, and no query
\* has been sent to the database.
C12_SearchBeforeStore ==
    (w_stores = 0 /\ w_last.op \in {"search", "search_by_vector"}) =>
        (w_last.result = "not_initialized" /\ w_queries = 0)

\* What the adapter does instead: the index flag is never None, so no
\* search ends with the "not initialized" error.
C12_NeverNotInitialized ==
    w_index = "True" /\ w_last.result # "not_initialized"

(***************************************************************************)
(* RetrievalFactory.create_retriever                                       *)
(***************************************************************************)
\* Retriever type strings; "bm25" is the one the docstring names for the
\* full-text retriever, "Vector" a wrong letter case.
RetrieverTypes == {"vector", "text", "hybrid", "bm25", "Vector"}

\* vector_store: 0 is None, other numbers are store objects.
VectorStores == 0..2

NoneConfig == [class |-> "None"]

\* HybridRetrieverConfig(): the defaults of the dataclass.
HybridRetrieverConfig ==
    [class |-> "HybridRetrieverConfig", vector_weight |-> 75, text_weight |-> 25,
     enable_text_search |-> TRUE, enable_vector_search |-> TRUE]

\* hybrid_config arguments: None, a dict, or a HybridRetrieverConfig.
HybridConfigArgs ==
    { NoneConfig,
      [class |-> "dict", vector_weight |-> 50, text_weight |-> 50],
      HybridRetrieverConfig,
      [HybridRetrieverConfig EXCEPT !.vector_weight = 70, !.text_weight = 30,
                                    !.enable_text_search = FALSE] }

NoSearch == [store |-> 0, given |-> <<>>, args |-> <<>>]

FactoryIdle ==
    /\ f_phase = "idle"
    /\ f_args = [type |-> "vector", store |-> 0, config |-> NoneConfig]
    /\ f_result = [kind |-> "none", store |-> 0, config |-> NoneConfig]
    /\ f_call = NoSearch

\* HybridRetriever.__init__: self.config = config or HybridRetrieverConfig(),
\* then the debug line reads the four attributes of self.config, which a
\* dict does not have.
HybridRetrieverInit(store, config) ==
    LET held == IF config = NoneConfig THEN HybridRetrieverConfig ELSE config
    IN  IF held.class = "dict"
        THEN [kind |-> "AttributeError", store |-> 0, config |-> NoneConfig]
        ELSE [kind |-> "HybridRetriever", store |-> store, config |-> held]

\* create_retriever(retriever_type, vector_store, hybrid_config)
CreateRetriever(retriever_type, vector_store, hybrid_config) ==
    LET ValueError == [kind |-> "ValueError", store |-> 0, config |-> NoneConfig]
    IN  CASE retriever_type = "vector" ->
               IF vector_store = 0 THEN ValueError
               ELSE [kind |-> "VectorRetriever", store |-> vector_store,
                     config |-> NoneConfig]
          [] retriever_type = "text" ->
               IF vector_store = 0 THEN ValueError
               ELSE [kind |-> "BM25Retriever", store |-> vector_store,
                     config |-> NoneConfig]
          [] retriever_type = "hybrid" ->
               IF vector_store = 0 THEN ValueError
               ELSE HybridRetrieverInit(vector_store,
                        IF hybrid_config = NoneConfig
                        THEN [class |-> "dict", vector_weight |-> 70, text_weight |-> 30]
                        ELSE hybrid_config)
          [] OTHER -> ValueError

CreateRetrieverCall ==
    /\ f_phase = "idle"
    /\ \E t \in RetrieverTypes, store \in VectorStores, config \in HybridConfigArgs :
          /\ f_args' = [type |-> t, store |-> store, config |-> config]
          /\ f_result' = CreateRetriever(t, store, config)
    /\ f_phase' = "created"
    /\ UNCHANGED <<f_call, exceptFactory>>

\* Slip: the score threshold is not passed on.
VectorSearchArgsNoThreshold(query, top_k, score_threshold) == <<query, top_k, 0>>

\* self.vector_store.search(query, top_k, score_threshold)
VectorSearchArgs(query, top_k, score_threshold) == <<query, top_k, score_threshold>>

\* VectorRetriever.search on the retriever the factory returned.
VectorRetrieverSearch ==
    /\ f_phase = "created"
    /\ f_result.kind = "VectorRetriever"
    /\ \E query \in Texts, top_k \in 1..MaxTopK, score_threshold \in {0, 50} :
          f_call' = [store |-> f_result.store,
                     given |-> <<query, top_k, score_threshold>>,
                     args |-> VectorSearchArgs(query, top_k, score_threshold)]
    /\ UNCHANGED <<f_phase, f_args, f_result, exceptFactory>>

FactoryReturn ==
    /\ f_phase = "created"
    /\ f_phase' = "idle"
    /\ f_args' = [type |-> "vector", store |-> 0, config |-> NoneConfig]
    /\ f_result' = [kind |-> "none", store |-> 0, config |-> NoneConfig]
    /\ f_call' = NoSearch
    /\ UNCHANGED exceptFactory

FactoryNext == CreateRetrieverCall \/ VectorRetrieverSearch \/ FactoryReturn

C14_HybridDefaultWeights ==
    (f_phase = "created" /\ f_args.type = "hybrid" /\ f_args.store # 0
        /\ f_args.config = NoneConfig) =>
        /\ f_result.kind = "HybridRetriever"
        /\ f_result.store = f_args.store
        /\ f_result.config.vector_weight = 70
        /\ f_result.config.text_weight = 30
        /\ f_result.config.enable_text_search
        /\ f_result.config.enable_vector_search

\* What the factory does instead: a hybrid retriever comes out only when a
\* HybridRetrieverConfig object was passed, and then it holds that object.
C14_HybridNeedsConfigObject ==
    (f_phase = "created" /\ f_args.type = "hybrid" /\ f_args.store # 0) =>
        IF f_args.config.class = "HybridRetrieverConfig"
        THEN f_result.kind = "HybridRetriever" /\ f_result.config = f_args.config
        ELSE f_result.kind = "AttributeError"

(***************************************************************************)
(* ParserFactory: the registry of parser classes                           *)
(***************************************************************************)
\* Number of register_parser calls that are explored.
MaxRegisters == 2

\* Extensions as they are passed in, and str.lower() on them.
ExtLower == [e \in {".md", ".markdown", ".pdf", ".txt", ".text", ".zz"} |-> e]
            @@ (".PDF" :> ".pdf") @@ (".Zz" :> ".zz")

\* supported_extensions of the classes that get registered; CustomParser
\* inherits the empty list of BaseParser.
supported_extensions ==
    [MarkdownParser |-> <<".md", ".markdown">>, TextParser |-> <<".txt", ".text">>,
     CustomParser |-> <<>>]

\* The registry when the module has been imported: _default_parsers, with
\* TextParser registered once more for ".txt" and ".text". A variant dict
\* is a sequence of [text |-> variant name, cls |-> class] in insertion
\* order; an extension without entries is not a key of the registry.
RegistryIdle ==
    /\ r_registry =
          [e \in {".md", ".markdown", ".pdf", ".txt", ".text", ".zz"} |->
              CASE e \in {".md", ".markdown"} ->
                     <<[text |-> "default", cls |-> "MarkdownParser"]>>
                [] e = ".pdf" ->
                     <<[text |-> "fast", cls |-> "PdfSimpleParser"],
                       [text |-> "mineru_vlm", cls |-> "MineruVLMParser"],
                       [text |-> "mineru_pipeline", cls |-> "MineruPipelineParser"]>>
                [] e \in {".txt", ".text"} ->
                     <<[text |-> "default", cls |-> "TextParser"]>>
                [] OTHER -> <<>>]
    /\ r_regs = 0
    /\ r_last = [ext |-> "", cls |-> "", name |-> ""]
    /\ r_lookup = [ext |-> "", type |-> "", result |-> ""]

\* cls._parser_registry[ext][parser_name] = parser_class for each of exts.
RECURSIVE RegisterAll(_, _, _, _)
RegisterAll(registry, exts, parser_class, parser_name) ==
    IF exts = <<>> THEN registry
    ELSE RegisterAll(
            [registry EXCEPT ![ExtLower[Head(exts)]] =
                DictSet(@, [text |-> parser_name, cls |-> parser_class])],
            Tail(exts), parser_class, parser_name)

\* register_parser(file_extension, parser_class, parser_name): the given
\* extension first, then the class's supported_extensions.
RegisterParser(file_extension, parser_class, parser_name) ==
    /\ r_registry' = RegisterAll(r_registry,
                        <<file_extension>> \o supported_extensions[parser_class],
                        parser_class, parser_name)
    /\ r_regs' = r_regs + 1
    /\ r_last' = [ext |-> file_extension, cls |-> parser_class, name |-> parser_name]
    /\ r_lookup' = [ext |-> "", type |-> "", result |-> ""]
    /\ UNCHANGED exceptRegistry

RegisterParserCall ==
    /\ r_regs < MaxRegisters
    /\ \E e \in {".md", ".PDF", ".txt", ".zz"},
          c \in DOMAIN supported_extensions, n \in {"default", "fast"} :
          RegisterParser(e, c, n)

\* Slip: the default variant is preferred to the requested one.
SelectParserDefaultFirst(parsers, parser_type) ==
    IF KeyIndex(parsers, "default") # 0 THEN parsers[KeyIndex(parsers, "default")].cls
    ELSE IF parser_type # "" /\ KeyIndex(parsers, parser_type) # 0
    THEN parsers[KeyIndex(parsers, parser_type)].cls
    ELSE parsers[1].cls

\* The choice among the variants of a registered extension; parser_type ""
\* stands for None.
SelectParser(parsers, parser_type) ==
    IF parser_type # "" /\ KeyIndex(parsers, parser_type) # 0
    THEN parsers[KeyIndex(parsers, parser_type)].cls
    ELSE IF KeyIndex(parsers, "default") # 0
    THEN parsers[KeyIndex(parsers, "default")].cls
    ELSE parsers[1].cls

\* get_parser_for_extension(file_extension, parser_type)
GetParserForExtension ==
    /\ r_lookup.ext = ""
    /\ \E e \in DOMAIN ExtLower, t \in {"", "fast", "mineru_vlm", "other"} :
          r_lookup' = [ext |-> e, type |-> t,
                       result |-> IF r_registry[ExtLower[e]] = <<>> THEN "ValueError"
                                  ELSE SelectParser(r_registry[ExtLower[e]], t)]
    /\ UNCHANGED <<r_registry, r_regs, r_last, exceptRegistry>>

\* The lookup result has been used; the registry stays as it is.
LookupReturn ==
    /\ r_lookup.ext # ""
    /\ r_lookup' = [ext |-> "", type |-> "", result |-> ""]
    /\ UNCHANGED <<r_registry, r_regs, r_last, exceptRegistry>>

RegistryNext == RegisterParserCall \/ GetParserForExtension \/ LookupReturn

\* The variants registered for the extension that was looked up.
Variants ==
    LET parsers == r_registry[ExtLower[r_lookup.ext]]
    IN  {<<parsers[i].text, parsers[i].cls>> : i \in 1..Len(parsers)}

\* C15: the lookup of an extension that is not registered raises
\* ValueError; for a registered extension it does not raise and returns
\* the requested variant if registered, else the default variant if there
\* is one, else some registered variant; before any registration ".md"
\* gives the Markdown parser; and after register_parser(ext, X) as the
\* last registration, the lookup of ext gives X.
C15_ParserLookup ==
    r_lookup.ext # "" =>
        LET names == {v[1] : v \in Variants}
            type == r_lookup.type
        IN  /\ Variants = {} <=> r_lookup.result = "ValueError"
            /\ Variants # {} =>
                  IF type \in names THEN <<type, r_lookup.result>> \in Variants
                  ELSE IF "default" \in names
                  THEN <<"default", r_lookup.result>> \in Variants
                  ELSE r_lookup.result \in {v[2] : v \in Variants}
            /\ (r_regs = 0 /\ r_lookup.ext = ".md") => r_lookup.result = "MarkdownParser"
            /\ (r_last.name = "default" /\ ExtLower[r_last.ext] = ExtLower[r_lookup.ext]
                  /\ type \notin names) => r_lookup.result = r_last.cls

\* After CustomParser was registered for ".PDF" as the last of two
\* registrations, the lookup of ".pdf" returns it.
C15_Witness ==
    /\ r_regs = 2
    /\ r_last = [ext |-> ".PDF", cls |-> "CustomParser", name |-> "default"]
    /\ r_lookup = [ext |-> ".pdf", type |-> "", result |-> "CustomParser"]

(***************************************************************************)
(* RAGConfig and RAGConfig.from_config_file                                *)
(*                                                                         *)
(* Eight fields of the record stand for the rest: two chunking sizes, the  *)
(* two parsing flags, a query parameter, the retrieval type, and two       *)
(* fields of the logging sub-record. The formats are named, not spelled:   *)
(* "loguru" is "{time:YYYY-MM-DD HH:mm:ss} [{level}] {message}" and        *)
(* "percent" is "[%(asctime)s] [%(levelname)s] [%(name)s] %(message)s";    *)
(* "per_module" is the dict of module levels of LoggingConfig and "empty"  *)
(* the empty dict.                                                         *)
(***************************************************************************)
\* RAGConfig(): the defaults of the dataclasses.
RAGConfig ==
    [chunk_size |-> 1000, chunk_overlap |-> 200, parse_by_chapter |-> FALSE,
     parse_by_element |-> FALSE, retrieve_top_k |-> 50, retrieval_type |-> "hybrid",
     logging_format |-> "loguru", logging_module_levels |-> "per_module"]

\* What a configuration file can set for each field; <<>> is a key that
\* the file does not have.
FileValues ==
    [chunk_size |-> {<<>>, <<500>>}, chunk_overlap |-> {<<>>, <<100>>},
     parse_by_chapter |-> {<<>>, <<TRUE>>, <<FALSE>>},
     parse_by_element |-> {<<>>, <<TRUE>>}, retrieve_top_k |-> {<<>>, <<10>>},
     retrieval_type |-> {<<>>, <<"vector">>},
     logging_format |-> {<<>>, <<"custom">>},
     logging_module_levels |-> {<<>>, <<"from_file">>}]

\* A file that does not exist, or exists and is empty.
EmptyFile == [k \in DOMAIN RAGConfig |-> <<>>]

ConfigIdle ==
    /\ g_phase = "idle"
    /\ g_file = EmptyFile
    /\ g_record = RAGConfig

\* The fallbacks written in from_config_file, one per .get(key, fallback).
FromConfigFile(file) ==
    LET fallback ==
          [chunk_size |-> 1000, chunk_overlap |-> 200, parse_by_chapter |-> TRUE,
           parse_by_element |-> FALSE, retrieve_top_k |-> 50,
           retrieval_type |-> "hybrid", logging_format |-> "percent",
           logging_module_levels |-> "empty"]
    IN  [k \in DOMAIN RAGConfig |-> IF file[k] = <<>> THEN fallback[k] ELSE file[k][1]]

FromConfigFileCall ==
    /\ g_phase = "idle"
    /\ \E cs \in FileValues.chunk_size, co \in FileValues.chunk_overlap,
          pc \in FileValues.parse_by_chapter, pe \in FileValues.parse_by_element,
          tk \in FileValues.retrieve_top_k, rt \in FileValues.retrieval_type,
          lf \in FileValues.logging_format, ml \in FileValues.logging_module_levels :
          LET file == [chunk_size |-> cs, chunk_overlap |-> co,
                       parse_by_chapter |-> pc, parse_by_element |-> pe,
                       retrieve_top_k |-> tk, retrieval_type |-> rt,
                       logging_format |-> lf, logging_module_levels |-> ml]
          IN  /\ g_file' = file
              /\ g_record' = FromConfigFile(file)
    /\ g_phase' = "loaded"
    /\ UNCHANGED exceptConfig

ConfigReturn ==
    /\ g_phase = "loaded"
    /\ g_phase' = "idle"
    /\ g_file' = EmptyFile
    /\ g_record' = RAGConfig
    /\ UNCHANGED exceptConfig

ConfigNext == FromConfigFileCall \/ ConfigReturn

\* C16: from_config_file on a missing file, or on a file that sets only
\* rag.chunk_size, gives a record in which every field that the file does
\* not set has the value it has in a default-constructed record.
C16_FallbacksAreDefaults ==
    (g_phase = "loaded" /\ \A k \in DOMAIN RAGConfig \ {"chunk_size"} : g_file[k] = <<>>)
        => \A k \in DOMAIN RAGConfig : g_file[k] = <<>> => g_record[k] = RAGConfig[k]

\* What does hold: the fields that the file sets have the file's value,
\* and of the others all but parse_by_chapter, the logging format and the
\* logging module levels have the default of the record.
C16_AgreeingFields ==
    g_phase = "loaded" =>
        \A k \in DOMAIN RAGConfig :
            IF g_file[k] # <<>> THEN g_record[k] = g_file[k][1]
            ELSE k \notin {"parse_by_chapter", "logging_format", "logging_module_levels"}
                    => g_record[k] = RAGConfig[k]

(***************************************************************************)
(* parse(source, source_type) of the parser classes                        *)
(***************************************************************************)
\* The parser classes that can be instantiated.
Parsers ==
    {"MarkdownParser", "PdfSimpleParser", "MineruVLMParser", "HtmlParser",
     "TextParser", "DocxParser", "ExcelParser", "PowerPointParser"}

\* source_type arguments: the three supported ones and four others.
SourceTypes == {"file", "content", "bytes", "url", "FILE", "text", ""}

ParseIdle ==
    /\ x_phase = "idle"
    /\ x_call = [parser |-> "MarkdownParser", by_chapter |-> FALSE, source_type |-> "file"]
    /\ x_outcome = "none"

\* What parse does with a readable source: "documents" is the list of
\* parsed documents, "empty_list" is [], the rest are exceptions that reach
\* the caller. by_chapter is config.get("parse_by_chapter", False).
Parse(parser, by_chapter, source_type) ==
    LET supported == source_type \in {"file", "content", "bytes"}
    IN  CASE parser \in {"MarkdownParser", "PdfSimpleParser", "MineruVLMParser"} ->
               \* the else branch raises ValueError; PdfSimpleParser logs
               \* and re-raises it
               IF supported THEN "documents" ELSE "ValueError"
          [] parser = "HtmlParser" ->
               \* parse_with_sections is not defined for this class; the
               \* ValueError of the else branch is raised inside the try
               \* whose except returns []
               IF by_chapter THEN "AttributeError"
               ELSE IF supported THEN "documents" ELSE "empty_list"
          [] parser = "TextParser" ->
               \* parse_with_sections calls parse, which calls it again
               IF by_chapter THEN "RecursionError"
               ELSE IF supported THEN "documents" ELSE "empty_list"
          [] parser = "DocxParser" ->
               \* not implemented: [] whatever the arguments
               IF by_chapter THEN "RecursionError" ELSE "empty_list"
          [] OTHER -> "empty_list"

ParseCall ==
    /\ x_phase = "idle"
    /\ \E parser \in Parsers, by_chapter \in BOOLEAN, source_type \in SourceTypes :
          /\ x_call' = [parser |-> parser, by_chapter |-> by_chapter,
                        source_type |-> source_type]
          /\ x_outcome' = Parse(parser, by_chapter, source_type)
    /\ x_phase' = "parsed"
    /\ UNCHANGED exceptParse

ParseReturn ==
    /\ x_phase = "parsed"
    /\ x_phase' = "idle"
    /\ x_call' = [parser |-> "MarkdownParser", by_chapter |-> FALSE, source_type |-> "file"]
    /\ x_outcome' = "none"
    /\ UNCHANGED exceptParse

ParseNext == ParseCall \/ ParseReturn

\* C17: for every parser, parse called with a source_type other than
\* file, content or bytes fails with a ValueError that reaches the caller.
C17_UnsupportedSourceType ==
    (x_phase = "parsed" /\ x_call.source_type \notin {"file", "content", "bytes"})
        => x_outcome = "ValueError"

\* What does hold: the Markdown parser and the two PDF parsers raise
\* ValueError for an unsupported source_type, and no other parser ever
\* does.
C17_OnlyThreeParsersRaise ==
    x_phase = "parsed" =>
        (x_outcome = "ValueError" <=>
            /\ x_call.parser \in {"MarkdownParser", "PdfSimpleParser", "MineruVLMParser"}
            /\ x_call.source_type \notin {"file", "content", "bytes"})

\* C21: the HTML, Text and DOCX parsers constructed with parse_by_chapter
\* set return a list from parse, whatever the source: nothing is raised to
\* the caller.
C21_ChapterModeReturnsList ==
    (/\ x_phase = "parsed"
     /\ x_call.parser \in {"HtmlParser", "TextParser", "DocxParser"}
     /\ x_call.by_chapter)
        => x_outcome \in {"documents", "empty_list"}

\* What the three parsers do with parse_by_chapter set: parse raises on
\* every call, AttributeError for HTML and RecursionError for Text and
\* DOCX, and never returns a list.
C21_ChapterModeRaises ==
    (/\ x_phase = "parsed"
     /\ x_call.parser \in {"HtmlParser", "TextParser", "DocxParser"}
     /\ x_call.by_chapter)
        => x_outcome = (IF x_call.parser = "HtmlParser" THEN "AttributeError"
                        ELSE "RecursionError")

(***************************************************************************)
(* MarkdownParser.parse_by_sections                                        *)
(*                                                                         *)
(* A line of the text is a heading of some level and title, a line of body *)
(* text, or a blank line. A Python value whose type matters is held as     *)
(* [type, repr]: the int 1 is [type |-> "int", repr |-> "1"], the str "1"  *)
(* is [type |-> "str", repr |-> "1"], and None is PyNone.                  *)
(***************************************************************************)
\* Longest text, in lines.
MaxLines == 4

HeaderLevels == 1..3

MdLines ==
    {[kind |-> "header", level |-> l, title |-> t] : l \in HeaderLevels, t \in Texts}
    \cup {[kind |-> "text", level |-> 0, title |-> ""],
          [kind |-> "blank", level |-> 0, title |-> ""]}

PyNone == [type |-> "NoneType", repr |-> "None"]
PyStr(s) == [type |-> "str", repr |-> s]
PyInt(n) == [type |-> "int", repr |-> <<"1", "2", "3", "4", "5", "6">>[n]]

\* str(value)
Str(value) == [type |-> "str", repr |-> value.repr]

\* ' > '.join(titles), as the sequence of its pieces.
RECURSIVE JoinPath(_)
JoinPath(titles) ==
    IF Len(titles) <= 1 THEN titles
    ELSE <<Head(titles), " > ">> \o JoinPath(Tail(titles))

MarkdownIdle ==
    /\ md_phase = "idle"
    /\ md_lines = <<>>
    /\ md_sections = <<>>

\* Slip: only deeper headings are popped, so a sibling stays on the stack.
PopsDeeperOnly(top_level, level) == top_level > level

\* while header_stack and header_stack[-1][0] >= level: header_stack.pop()
Pops(top_level, level) == top_level >= level

RECURSIVE PopHeaders(_, _)
PopHeaders(stack, level) ==
    IF stack # <<>> /\ Pops(stack[Len(stack)].level, level)
    THEN PopHeaders(SubSeq(stack, 1, Len(stack) - 1), level)
    ELSE stack

\* The Document of the section in progress, built from the heading stack.
SectionDocument(current, stack) ==
    LET n == Len(stack)
        parent_title == IF n >= 2 THEN PyStr(stack[n - 1].title) ELSE PyNone
        parent_level == IF n >= 2 THEN PyInt(stack[n - 1].level) ELSE PyNone
    IN  [title |-> current.title, level |-> current.level, heading |-> TRUE,
         full_title_path |-> JoinPath([i \in 1..n |-> stack[i].title]),
         parent_title |-> parent_title,
         parent_level |-> Str(parent_level),
         title_hierarchy |-> [i \in 1..n |-> stack[i].title],
         level_hierarchy |-> [i \in 1..n |-> stack[i].level]]

\* The section of a line that comes before any heading.
Introduction ==
    [title |-> "Introduction", level |-> 0, heading |-> FALSE,
     full_title_path |-> <<"Introduction">>, parent_title |-> PyNone,
     parent_level |-> PyNone, title_hierarchy |-> <<"Introduction">>,
     level_hierarchy |-> <<0>>]

\* The section in progress is emitted when it has accumulated lines.
Flush(st) ==
    IF st.current.level # 0 /\ st.content > 0
    THEN Append(st.sections, SectionDocument(st.current, st.stack))
    ELSE st.sections

\* The body of the for loop, over the lines that are left. st holds the
\* heading stack, the section in progress (level 0 when there is none),
\* the number of lines it has accumulated and the sections emitted.
RECURSIVE ScanLines(_, _)
ScanLines(st, lines) ==
    IF lines = <<>> THEN st
    ELSE LET line == Head(lines)
             next ==
                IF line.kind = "header"
                THEN [stack |-> Append(PopHeaders(st.stack, line.level),
                                       [level |-> line.level, title |-> line.title]),
                      current |-> [level |-> line.level, title |-> line.title],
                      content |-> 0,
                      sections |-> Flush(st)]
                ELSE IF st.current.level # 0
                THEN [st EXCEPT !.content = @ + 1]
                ELSE IF line.kind = "text"
                THEN [st EXCEPT !.sections = Append(@, Introduction)]
                ELSE st
         IN  ScanLines(next, Tail(lines))

\* parse_by_sections(content): without any heading the whole text is one
\* "Full Document" section (none when the text is blank); otherwise the
\* lines are scanned and the last section is flushed.
ParseBySections(lines) ==
    IF \E i \in 1..Len(lines) : lines[i].kind = "header"
    THEN Flush(ScanLines([stack |-> <<>>, current |-> [level |-> 0, title |-> ""],
                          content |-> 0, sections |-> <<>>], lines))
    ELSE IF \E i \in 1..Len(lines) : lines[i].kind = "text"
    THEN <<[Introduction EXCEPT !.title = "Full Document",
                                !.full_title_path = <<"Full Document">>,
                                !.title_hierarchy = <<"Full Document">>]>>
    ELSE <<>>

ParseBySectionsCall ==
    /\ md_phase = "idle"
    /\ \E lines \in SeqsUpTo(MdLines, MaxLines) :
          /\ md_lines' = lines
          /\ md_sections' = ParseBySections(lines)
    /\ md_phase' = "parsed"
    /\ UNCHANGED exceptMarkdown

ParseBySectionsReturn ==
    /\ md_phase = "parsed"
    /\ md_phase' = "idle"
    /\ md_lines' = <<>>
    /\ md_sections' = <<>>
    /\ UNCHANGED exceptMarkdown

MarkdownNext == ParseBySectionsCall \/ ParseBySectionsReturn

HeadingSections ==
    {md_sections[i] : i \in {j \in 1..Len(md_sections) : md_sections[j].heading}}

\* C18: every emitted heading section has title_hierarchy and
\* level_hierarchy of the same length, levels that strictly increase, its
\* own title and level as their last entries, and full_title_path equal to
\* the " > " join of title_hierarchy.
C18_HeadingHierarchy ==
    \A d \in HeadingSections :
        LET n == Len(d.title_hierarchy)
        IN  /\ n >= 1
            /\ Len(d.level_hierarchy) = n
            /\ \A i \in 1..(n - 1) : d.level_hierarchy[i] < d.level_hierarchy[i + 1]
            /\ d.title_hierarchy[n] = d.title
            /\ d.level_hierarchy[n] = d.level
            /\ Len(d.full_title_path) = 2 * n - 1
            /\ \A i \in 1..n : d.full_title_path[2 * i - 1] = d.title_hierarchy[i]
            /\ \A i \in 1..(n - 1) : d.full_title_path[2 * i] = " > "

\* "# A", "## A", "## B", text: the second heading was popped for its
\* sibling, and the section B is emitted under A.
C18_Witness ==
    /\ md_phase = "parsed"
    /\ Len(md_lines) = 4
    /\ md_lines[2].level = 2 /\ md_lines[3].level = 2
    /\ \E d \in HeadingSections :
          d.title_hierarchy = <<"A", "B">> /\ d.level_hierarchy = <<1, 2>>

\* C20: for every emitted heading section, parent_title and parent_level
\* are the title and the level of the second-from-top entry of the heading
\* stack, and both are None when the heading path has a single entry.
C20_ParentOfSection ==
    \A d \in HeadingSections :
        LET n == Len(d.title_hierarchy)
        IN  IF n >= 2
            THEN /\ d.parent_title = PyStr(d.title_hierarchy[n - 1])
                 /\ d.parent_level = PyInt(d.level_hierarchy[n - 1])
            ELSE d.parent_title = PyNone /\ d.parent_level = PyNone

\* What does hold: parent_title is as the claim says, and parent_level is
\* always a string, the decimal text of the parent's level or "None".
C20_ParentLevelIsText ==
    \A d \in HeadingSections :
        LET n == Len(d.title_hierarchy)
        IN  /\ d.parent_title = IF n >= 2 THEN PyStr(d.title_hierarchy[n - 1]) ELSE PyNone
            /\ d.parent_level = IF n >= 2 THEN Str(PyInt(d.level_hierarchy[n - 1]))
                                ELSE Str(PyNone)

(***************************************************************************)
(* ContentDetector.detect_content_type                                     *)
(*                                                                         *)
(* A text is a sequence of pieces: "#", a blank, a newline, the letter     *)
(* "a", the tag "<p>" and the entity "&amp;". Scores are in thousandths.   *)
(***************************************************************************)
\* Longest text given to the detector, in pieces.
MaxContentLen == 4

ContentPieces == {"#", " ", "\n", "a", "<p>", "&amp;"}

DetectIdle ==
    /\ t_phase = "idle"
    /\ t_content = <<>>
    /\ t_raw = [markdown |-> 0, html |-> 0]
    /\ t_scores = [text |-> 1000, markdown |-> 0, html |-> 0]

\* content.strip()
RECURSIVE StripContent(_)
StripContent(s) ==
    IF s = <<>> THEN s
    ELSE IF Head(s) \in {" ", "\n"} THEN StripContent(Tail(s))
    ELSE IF s[Len(s)] \in {" ", "\n"} THEN StripContent(SubSeq(s, 1, Len(s) - 1))
    ELSE s

\* MARKDOWN_PATTERNS['headers'].search(s): ^#{1,6}\s+.*$ with MULTILINE
\* matches when some line starts with one to six "#" followed by a blank
\* or a newline.
HeadersSearch(s) ==
    \E i \in 1..Len(s), j \in 1..6 :
        /\ i = 1 \/ s[i - 1] = "\n"
        /\ i + j <= Len(s)
        /\ \A k \in i..(i + j - 1) : s[k] = "#"
        /\ s[i + j] \in {" ", "\n"}

\* Slip: a header lifts the score to 0.7 only.
HeaderFloorLow(score) == IF score < 700 THEN 700 ELSE score

\* score = max(score, 0.8)
HeaderFloor(score) == IF score < 800 THEN 800 ELSE score

\* _calculate_markdown_score: of the ten patterns only the header pattern
\* can match a text of these pieces.
MarkdownScore(s) ==
    IF HeadersSearch(s) THEN Min(1000, HeaderFloor(1000 \div 10)) ELSE 0

\* _calculate_html_score: "<p>" matches the tags pattern and the basic
\* structure pattern (one match each, and three more for the structure),
\* "&amp;" matches the entity pattern; the sum is divided by 5 + 3.
HtmlScore(s) ==
    LET has(p) == \E i \in 1..Len(s) : s[i] = p
        matched == (IF has("<p>") THEN 2 + 3 ELSE 0) + (IF has("&amp;") THEN 1 ELSE 0)
    IN  Min(1000, (matched * 1000) \div 8)

\* detect_content_type(content): the locals markdown_score and html_score,
\* and the returned scores.
DetectContentType(content) ==
    LET s == StripContent(content)
        markdown_score == IF content = <<>> THEN 0 ELSE MarkdownScore(s)
        html_score == IF content = <<>> THEN 0 ELSE HtmlScore(s)
        total == markdown_score + html_score
    IN  [raw |-> [markdown |-> markdown_score, html |-> html_score],
         scores |->
            IF content = <<>> \/ (markdown_score < 100 /\ html_score < 100) \/ total = 0
            THEN [text |-> 1000, markdown |-> 0, html |-> 0]
            ELSE [text |-> IF 1000 - total > 0 THEN 1000 - total ELSE 0,
                  markdown |-> (markdown_score * 1000) \div total,
                  html |-> (html_score * 1000) \div total]]

DetectCall ==
    /\ t_phase = "idle"
    /\ \E content \in SeqsUpTo(ContentPieces, MaxContentLen) :
          /\ t_content' = content
          /\ t_raw' = DetectContentType(content).raw
          /\ t_scores' = DetectContentType(content).scores
    /\ t_phase' = "detected"
    /\ UNCHANGED exceptDetect

DetectReturn ==
    /\ t_phase = "detected"
    /\ t_phase' = "idle"
    /\ t_content' = <<>>
    /\ t_raw' = [markdown |-> 0, html |-> 0]
    /\ t_scores' = [text |-> 1000, markdown |-> 0, html |-> 0]
    /\ UNCHANGED exceptDetect

DetectNext == DetectCall \/ DetectReturn

MaxItems == 3

ItemTexts == {<<>>, <<" ">>, <<"a">>, <<" ", "b">>}

ContentItems ==
    [type : {"text"}, text : ItemTexts, text_level : {0, 1}]
        \cup {[type |-> "table", text |-> <<>>, text_level |-> 0]}

MineruIdle ==
    /\ n_phase = "idle"
    /\ n_content_list = <<>>
    /\ n_result = [outcome |-> "none", documents |-> <<>>]

\* Slip: only a heading starts a new block.
StartsBlockOnHeadingOnly(text_level, current_text) == text_level = 1

\* text_level == 1 or not current_text
StartsBlock(text_level, current_text) == text_level = 1 \/ current_text = <<>>

\* if current_text and current_metadata: documents.append(Document(...));
\* current_metadata is <<>> for None and <<metadata>> for a dict.
EmitBlock(documents, current_text, current_metadata) ==
    IF current_text # <<>> /\ current_metadata # <<>>
    THEN Append(documents, [page_content |-> Strip(current_text),
                            text_level |-> current_metadata[1].text_level,
                            start_index |-> current_metadata[1].start_index])
    ELSE documents

\* The for loop over enumerate(content_list), from position i (1-based; the
\* recorded start_index is 0-based), and the emission after the loop.
RECURSIVE MergeItems(_, _, _, _, _)
MergeItems(content_list, i, documents, current_text, current_metadata) ==
    IF i > Len(content_list)
    THEN EmitBlock(documents, current_text, current_metadata)
    ELSE LET item == content_list[i]
             text == Strip(item.text)
         IN  IF item.type # "text" \/ item.text = <<>> \/ text = <<>>
             THEN MergeItems(content_list, i + 1, documents, current_text, current_metadata)
             ELSE IF StartsBlock(item.text_level, current_text)
             THEN MergeItems(content_list, i + 1,
                             EmitBlock(documents, current_text, current_metadata),
                             text,
                             <<[text_level |-> item.text_level, start_index |-> i - 1]>>)
             ELSE MergeItems(content_list, i + 1, documents,
                             IF current_text # <<>>
                             THEN (IF current_text[Len(current_text)] # "\n"
                                   THEN current_text \o <<"\n">> ELSE current_text) \o text
                             ELSE text,
                             current_metadata)

\* _parse_pdf_to_documents, given the content list: the ValueError of the
\* empty list is logged and raised again.
ParsePdfToDocuments(content_list) ==
    IF content_list = <<>>
    THEN [outcome |-> "ValueError", documents |-> <<>>]
    ELSE [outcome |-> "documents",
          documents |-> MergeItems(content_list, 1, <<>>, <<>>, <<>>)]

ParsePdfCall ==
    /\ n_phase = "idle"
    /\ \E content_list \in SeqsUpTo(ContentItems, MaxItems) :
          /\ n_content_list' = content_list
          /\ n_result' = ParsePdfToDocuments(content_list)
    /\ n_phase' = "parsed"
    /\ UNCHANGED exceptMineru

ParsePdfReturn ==
    /\ n_phase = "parsed"
    /\ n_phase' = "idle"
    /\ n_content_list' = <<>>
    /\ n_result' = [outcome |-> "none", documents |-> <<>>]
    /\ UNCHANGED exceptMineru

MineruNext == ParsePdfCall \/ ParsePdfReturn

\* The texts of the items at the positions in idx, in list order, joined
\* by newlines.
RECURSIVE JoinItems(_, _)
JoinItems(content_list, idx) ==
    IF idx = {} THEN <<>>
    ELSE LET i == CHOOSE a \in idx : \A b \in idx : a <= b
             rest == JoinItems(content_list, idx \ {i})
         IN  IF rest = <<>> THEN Strip(content_list[i].text)
             ELSE Strip(content_list[i].text) \o <<"\n">> \o rest

\* The documents described by the grouping rule, when the items at the
\* positions in kept are the ones that count: a block starts at each
\* counted item of text_level 1 and at the first counted item, and holds
\* the counted items up to the next start.
GroupedAs(content_list, kept, documents) ==
    LET starts == {i \in kept : content_list[i].text_level = 1 \/ \A j \in kept : i <= j}
        owner(i) == CHOOSE s \in starts : s <= i /\ \A t \in starts : t <= i => t <= s
    IN  /\ Len(documents) = Cardinality(starts)
        /\ \A k \in 1..Len(documents) :
              /\ documents[k].start_index + 1 \in starts
              /\ k > 1 => documents[k - 1].start_index < documents[k].start_index
              /\ documents[k].text_level = content_list[documents[k].start_index + 1].text_level
              /\ documents[k].page_content =
                    JoinItems(content_list,
                              {i \in kept : owner(i) = documents[k].start_index + 1})

\* C22 as stated: an empty content list fails; otherwise every text item
\* whose text is not empty is in exactly one document, in list order, a
\* document starting at each such item of text_level 1 and at the first
\* one, the others appended with a newline, the last block emitted.
C22_EveryNonEmptyTextItem ==
    n_phase = "parsed" =>
        IF n_content_list = <<>> THEN n_result.outcome = "ValueError"
        ELSE /\ n_result.outcome = "documents"
             /\ GroupedAs(n_content_list,
                          {i \in 1..Len(n_content_list) :
                              /\ n_content_list[i].type = "text"
                              /\ n_content_list[i].text # <<>>},
                          n_result.documents)

\* C22 amended: the same with the text items that count being those whose
\* text is not blank once stripped; a text item of whitespace only is
\* passed over like a table item, and the texts are stripped before they
\* are joined.
C22_EveryNonBlankTextItem ==
    n_phase = "parsed" =>
        IF n_content_list = <<>> THEN n_result.outcome = "ValueError"
        ELSE /\ n_result.outcome = "documents"
             /\ GroupedAs(n_content_list,
                          {i \in 1..Len(n_content_list) :
                              /\ n_content_list[i].type = "text"
                              /\ Strip(n_content_list[i].text) # <<>>},
                          n_result.documents)

\* A body item opens the first block, a second body item is appended to
\* it, and a heading starts the second block.
C22_Witness ==
    /\ n_phase = "parsed"
    /\ n_content_list = <<[type |-> "text", text |-> <<"a">>, text_level |-> 0],
                          [type |-> "text", text |-> <<" ", "b">>, text_level |-> 0],
                          [type |-> "text", text |-> <<"a">>, text_level |-> 1]>>
    /\ n_result.documents =
          <<[page_content |-> <<"a", "\n", "b">>, text_level |-> 0, start_index |-> 0],
            [page_content |-> <<"a">>, text_level |-> 1, start_index |-> 2]>>

(***************************************************************************)
(* MineruVLMParser.aprocess_batch_pdfs                                     *)
(*                                                                         *)
(* What happens to each PDF of the directory is chosen when the call is    *)
(* made: "skip" (content.md exists), "success", "error" (an Exception      *)
(* inside aprocess_single_pdf, which its handler turns into an error       *)
(* result) or "cancelled" (the task ends with CancelledError, which is not *)
(* an Exception). The tasks of asyncio.gather finish in any order.         *)
(***************************************************************************)
\* Most PDF files in the directory.
MaxPdfs == 3

PdfFates == {"skip", "success", "error", "cancelled"}
NoBatchResult ==
    [status |-> "none", total_pdfs |-> 0, processed_pdfs |-> 0,
     failed_pdfs |-> 0, skipped_pdfs |-> 0]

BatchIdle ==
    /\ b_phase = "idle"
    /\ b_exists = TRUE
    /\ b_pdf_files = <<>>
    /\ b_batch_results = <<>>
    /\ b_result = NoBatchResult

\* aprocess_single_pdf: the value the task gives to gather.
AProcessSinglePdf(fate) ==
    CASE fate = "success" -> "success"
      [] fate = "error" -> "error"
      [] OTHER -> "CancelledError"

\* The positions of the files for which a task is created.
Tasks(pdf_files) == {i \in 1..Len(pdf_files) : pdf_files[i] # "skip"}

Count(results, S) == Cardinality({i \in DOMAIN results : results[i] \in S})

\* The loop over batch_results and the returned record. A result that is
\* an exception object but not an instance of Exception reaches
\* result["status"], which raises TypeError.
Aggregate(pdf_files, batch_results) ==
    IF \E i \in Tasks(pdf_files) : batch_results[i] = "CancelledError"
    THEN [NoBatchResult EXCEPT !.status = "TypeError"]
    ELSE [status |-> "complete",
          total_pdfs |-> Len(pdf_files),
          processed_pdfs |-> Count(batch_results, {"success"}),
          failed_pdfs |-> Count(batch_results, {"error"}),
          skipped_pdfs |-> Len(pdf_files) - Cardinality(Tasks(pdf_files))]

\* aprocess_batch_pdfs up to the await: the two early returns (the second
\* one uses the name logger, which the module does not define), the skips,
\* and the tasks; with no task it goes on to the return.
AProcessBatchPdfs ==
    /\ b_phase = "idle"
    /\ \E exists \in BOOLEAN, pdf_files \in SeqsUpTo(PdfFates, MaxPdfs) :
          /\ b_exists' = exists
          /\ b_pdf_files' = pdf_files
          /\ b_batch_results' = [i \in 1..Len(pdf_files) |-> "pending"]
          /\ IF ~exists
             THEN /\ b_result' = [NoBatchResult EXCEPT !.status = "error"]
                  /\ b_phase' = "returned"
             ELSE IF Len(pdf_files) = 0
             THEN /\ b_result' = [NoBatchResult EXCEPT !.status = "NameError"]
                  /\ b_phase' = "returned"
             ELSE IF Tasks(pdf_files) = {}
             THEN /\ b_result' = Aggregate(pdf_files, [i \in 1..Len(pdf_files) |-> "pending"])
                  /\ b_phase' = "returned"
             ELSE /\ b_result' = NoBatchResult
                  /\ b_phase' = "gathering"
    /\ UNCHANGED exceptBatch

\* One task of the gather finishes.
TaskDone ==
    /\ b_phase = "gathering"
    /\ \E i \in Tasks(b_pdf_files) :
          /\ b_batch_results[i] = "pending"
          /\ b_batch_results' = [b_batch_results EXCEPT ![i] = AProcessSinglePdf(b_pdf_files[i])]
    /\ UNCHANGED <<b_phase, b_exists, b_pdf_files, b_result, exceptBatch>>

\* All tasks have finished: the await returns and the results are counted.
GatherReturns ==
    /\ b_phase = "gathering"
    /\ \A i \in Tasks(b_pdf_files) : b_batch_results[i] # "pending"
    /\ b_result' = Aggregate(b_pdf_files, b_batch_results)
    /\ b_phase' = "returned"
    /\ UNCHANGED <<b_exists, b_pdf_files, b_batch_results, exceptBatch>>

BatchReturn ==
    /\ b_phase = "returned"
    /\ b_phase' = "idle"
    /\ b_exists' = TRUE
    /\ b_pdf_files' = <<>>
    /\ b_batch_results' = <<>>
    /\ b_result' = NoBatchResult
    /\ UNCHANGED exceptBatch

BatchNext == AProcessBatchPdfs \/ TaskDone \/ GatherReturns \/ BatchReturn

\* C23: for an existing directory, whatever happens to each file and in
\* whatever order the tasks finish, the batch call does not raise, and
\* processed + failed + skipped = total_pdfs = the number of PDF files.
C23_BatchCountsEveryPdf ==
    (b_phase = "returned" /\ b_exists) =>
        /\ b_result.status = "complete"
        /\ b_result.total_pdfs = Len(b_pdf_files)
        /\ b_result.processed_pdfs + b_result.failed_pdfs + b_result.skipped_pdfs
              = b_result.total_pdfs

\* What does hold: when the directory has at least one PDF and no task
\* ends with CancelledError, the call returns the counts and they add up,
\* each file counted by its own outcome.
C23_CountsWhenTasksReturn ==
    (/\ b_phase = "returned" /\ b_exists /\ Len(b_pdf_files) > 0
     /\ \A i \in 1..Len(b_pdf_files) : b_pdf_files[i] # "cancelled") =>
        /\ b_result.status = "complete"
        /\ b_result.total_pdfs = Len(b_pdf_files)
        /\ b_result.processed_pdfs = Count(b_pdf_files, {"success"})
        /\ b_result.failed_pdfs = Count(b_pdf_files, {"error"})
        /\ b_result.skipped_pdfs = Count(b_pdf_files, {"skip"})

(***************************************************************************)
(* ParserFactory.smart_select_parser and auto_detect_parser                *)
(*                                                                         *)
(* A call gives the suffix of the path, the content preview (<<>> when it  *)
(* is None or empty) and the pdf_parser_type of the config ("" when the    *)
(* key is missing). The result is the parser class, or the exception.      *)
(***************************************************************************)
Suffixes == {".pdf", ".PDF", ".md", ".html", ".txt", ".zz"}
Previews == {<<>>, <<"a">>, <<"#", " ", "a">>, <<"<p>">>, <<"#", " ", "<p>">>}
PdfParserTypes == {"", "fast", "mineru", "mineru_pipeline"}

\* _default_parsers, which is the registry when nothing else is registered.
default_parsers ==
    [e \in {".pdf", ".md", ".html", ".txt", ".zz"} |->
        CASE e = ".pdf" -> <<[text |-> "fast", cls |-> "PdfSimpleParser"],
                             [text |-> "mineru_vlm", cls |-> "MineruVLMParser"],
                             [text |-> "mineru_pipeline", cls |-> "MineruPipelineParser"]>>
          [] e = ".md" -> <<[text |-> "default", cls |-> "MarkdownParser"]>>
          [] e = ".html" -> <<[text |-> "default", cls |-> "HtmlParser"]>>
          [] e = ".txt" -> <<[text |-> "default", cls |-> "TextParser"]>>
          [] OTHER -> <<>>]

SmartIdle ==
    /\ sm_phase = "idle"
    /\ sm_call = [suffix |-> ".md", content |-> <<>>, pdf_parser_type |-> ""]
    /\ sm_parser = "none"

\* file_path.suffix.lower()
SuffixLower(suffix) == IF suffix = ".PDF" THEN ".pdf" ELSE suffix

\* create_parser(file_path, parser_type, **config): the class chosen for
\* the suffix, after the mapping of the old type names.
CreateParser(suffix, parser_type) ==
    LET file_extension == SuffixLower(suffix)
        mapped == IF parser_type = "mineru" THEN "mineru_vlm" ELSE parser_type
    IN  IF default_parsers[file_extension] = <<>> THEN "ValueError"
        ELSE SelectParser(default_parsers[file_extension], mapped)

\* auto_detect_parser(file_path, config)
AutoDetectParser(suffix, pdf_parser_type) ==
    IF SuffixLower(suffix) = ".pdf"
    THEN CreateParser(suffix, IF pdf_parser_type = "" THEN "fast" ELSE pdf_parser_type)
    ELSE CreateParser(suffix, "default")

\* content_type == name, where content_type is what detect_content_type
\* returned: a dict, which is equal to no str.
ContentTypeEquals(content_type, name) ==
    content_type.type = "str" /\ content_type.repr = name

\* smart_select_parser(file_path, content, config)
SmartSelectParser(suffix, content, pdf_parser_type) ==
    LET file_extension == SuffixLower(suffix)
        content_type == [type |-> "dict", scores |-> DetectContentType(content).scores]
    IN  IF content # <<>>
           /\ \/ ContentTypeEquals(content_type, "markdown") /\ file_extension # ".md"
              \/ ContentTypeEquals(content_type, "html") /\ file_extension # ".html"
        THEN CreateParser(suffix, "default")
        ELSE AutoDetectParser(suffix, pdf_parser_type)

SmartSelectCall ==
    /\ sm_phase = "idle"
    /\ \E suffix \in Suffixes, content \in Previews, pdf_parser_type \in PdfParserTypes :
          /\ sm_call' = [suffix |-> suffix, content |-> content,
                         pdf_parser_type |-> pdf_parser_type]
          /\ sm_parser' = SmartSelectParser(suffix, content, pdf_parser_type)
    /\ sm_phase' = "returned"
    /\ UNCHANGED exceptSmart

SmartSelectReturn ==
    /\ sm_phase = "returned"
    /\ sm_phase' = "idle"
    /\ sm_call' = [suffix |-> ".md", content |-> <<>>, pdf_parser_type |-> ""]
    /\ sm_parser' = "none"
    /\ UNCHANGED exceptSmart

SmartNext == SmartSelectCall \/ SmartSelectReturn

\* The content looks like the given type: that score is the largest of the
\* three that the detector returns.
LooksLike(content, name) ==
    LET scores == DetectContentType(content).scores
    IN  /\ content # <<>>
        /\ \A other \in {"text", "markdown", "html"} \ {name} : scores[name] > scores[other]

\* C24: when the content looks like Markdown and the suffix is not .md, or
\* looks like HTML and the suffix is not .html, the result is the parser of
\* the default selection for the suffix; otherwise it is the parser that
\* auto_detect_parser returns for the same path and config.
C24_ConflictUsesDefault ==
    sm_phase = "returned" =>
        sm_parser =
            IF \/ LooksLike(sm_call.content, "markdown") /\ SuffixLower(sm_call.suffix) # ".md"
               \/ LooksLike(sm_call.content, "html") /\ SuffixLower(sm_call.suffix) # ".html"
            THEN CreateParser(sm_call.suffix, "default")
            ELSE AutoDetectParser(sm_call.suffix, sm_call.pdf_parser_type)

\* What does hold: whatever the content, the result is the parser that
\* auto_detect_parser returns for the same path and config.
C24_AlwaysAutoDetect ==
    sm_phase = "returned" =>
        sm_parser = AutoDetectParser(sm_call.suffix, sm_call.pdf_parser_type)

(***************************************************************************)
(* DocumentProcessingPipeline.process_file                                 *)
(*                                                                         *)
(* The parser's output for the file is the input: a list of documents,     *)
(* each a page_content. The pipeline's chunker has chunk_size 1 and        *)
(* chunk_overlap 0. store_texts either returns or raises.                  *)
(***************************************************************************)
\* Most documents the parser returns for one file.
MaxParsed == 3

PageContents == {<<>>, <<" ">>, <<"a">>, <<"a", " ", "a">>}
StoreOutcomes == {"ok", "raises"}
FileSplitter == [size |-> 1, overlap |-> 0, attr |-> <<>>]

FileIdle ==
    /\ pf_phase = "idle"
    /\ pf_documents = <<>>
    /\ pf_store_calls = <<>>
    /\ pf_result = [outcome |-> "none", chunks |-> <<>>]

\* self.chunker.get_chunks(paragraphs=document.page_content,
\* metadata=base_metadata): the chunks of the one text, each with the
\* document_index of base_metadata.
DocumentChunks(page_content, doc_idx) ==
    LET chunks == AllChunks(FileSplitter, <<page_content>>, 1, <<>>)
    IN  [c \in 1..Len(chunks) |->
            [text |-> chunks[c].text,
             metadata |-> [document_index |-> doc_idx,
                           chunk_index |-> chunks[c].chunk_index]]]

\* The loop over enumerate(documents), from position i (doc_idx is i - 1).
RECURSIVE ExtendChunks(_, _, _)
ExtendChunks(documents, i, all_chunks) ==
    IF i > Len(documents) THEN all_chunks
    ELSE IF Strip(documents[i]) = <<>>
    THEN ExtendChunks(documents, i + 1, all_chunks)
    ELSE ExtendChunks(documents, i + 1, all_chunks \o DocumentChunks(documents[i], i - 1))

\* Slip: the vector store is called even with nothing to store.
StoresAlways(chunks) == TRUE

\* hasattr(self, 'vector') and chunks
Stores(chunks) == chunks # <<>>

\* process_file(file_path): exists is file_path.exists(), documents is what
\* the parser returns, store is what store_texts does if it is called.
ProcessFile(exists, documents, store) ==
    IF ~exists THEN
        /\ pf_result' = [outcome |-> "FileNotFoundError", chunks |-> <<>>]
        /\ pf_store_calls' = <<>>
    ELSE IF documents = <<>> THEN
        /\ pf_result' = [outcome |-> "returned", chunks |-> <<>>]
        /\ pf_store_calls' = <<>>
    ELSE LET chunks == ExtendChunks(documents, 1, <<>>)
         IN  IF Stores(chunks)
             THEN /\ pf_store_calls' =
                        <<[texts |-> [c \in 1..Len(chunks) |-> chunks[c].text],
                           metadata |-> [c \in 1..Len(chunks) |-> chunks[c].metadata]]>>
                  /\ pf_result' = IF store = "ok"
                                  THEN [outcome |-> "returned", chunks |-> chunks]
                                  ELSE [outcome |-> "Exception", chunks |-> <<>>]
             ELSE /\ pf_store_calls' = <<>>
                  /\ pf_result' = [outcome |-> "returned", chunks |-> chunks]

ProcessFileCall ==
    /\ pf_phase = "idle"
    /\ \E exists \in BOOLEAN, documents \in SeqsUpTo(PageContents, MaxParsed),
          store \in StoreOutcomes :
          /\ pf_documents' = documents
          /\ ProcessFile(exists, documents, store)
    /\ pf_phase' = "returned"
    /\ UNCHANGED exceptFile

ProcessFileReturn ==
    /\ pf_phase = "returned"
    /\ pf_phase' = "idle"
    /\ pf_documents' = <<>>
    /\ pf_store_calls' = <<>>
    /\ pf_result' = [outcome |-> "none", chunks |-> <<>>]
    /\ UNCHANGED exceptFile

FileNext == ProcessFileCall \/ ProcessFileReturn

\* The chunks of the list that come from the document at doc_idx, in the
\* order they have in the list.
RECURSIVE ChunksFrom(_, _)
ChunksFrom(chunks, doc_idx) ==
    IF chunks = <<>> THEN <<>>
    ELSE (IF Head(chunks).metadata.document_index = doc_idx THEN <<Head(chunks)>> ELSE <<>>)
         \o ChunksFrom(Tail(chunks), doc_idx)

\* C25: when process_file returns, the chunk list holds the chunks of each
\* non-blank document in chunker order, the documents in parser order, and
\* nothing else; store_texts has been called exactly once, with the texts
\* and the metadata of exactly that list in order, when the list is not
\* empty, and not at all when it is empty (no documents among the cases).
C25_ChunksInOrderStoredOnce ==
    (pf_phase = "returned" /\ pf_result.outcome = "returned") =>
        LET chunks == pf_result.chunks
        IN  /\ \A k \in 1..(Len(chunks) - 1) :
                  chunks[k].metadata.document_index <= chunks[k + 1].metadata.document_index
            /\ \A k \in 1..Len(chunks) :
                  chunks[k].metadata.document_index + 1 \in 1..Len(pf_documents)
            /\ \A i \in 1..Len(pf_documents) :
                  ChunksFrom(chunks, i - 1) =
                      IF IsBlank(pf_documents[i]) THEN <<>>
                      ELSE DocumentChunks(pf_documents[i], i - 1)
            /\ IF chunks = <<>> THEN pf_store_calls = <<>>
               ELSE /\ Len(pf_store_calls) = 1
                    /\ pf_store_calls[1].texts = [c \in 1..Len(chunks) |-> chunks[c].text]
                    /\ pf_store_calls[1].metadata = [c \in 1..Len(chunks) |-> chunks[c].metadata]

\* Three documents, the middle one blank: the chunks of the first and the
\* third are returned in that order and stored in one call.
C25_Witness ==
    /\ pf_phase = "returned"
    /\ pf_result.outcome = "returned"
    /\ pf_documents = <<<<"a", " ", "a">>, <<" ">>, <<"a">>>>
    /\ Len(pf_result.chunks) = 4
    /\ pf_result.chunks[1].metadata.document_index = 0
    /\ pf_result.chunks[4].metadata.document_index = 2
    /\ Len(pf_store_calls) = 1

\* All documents are blank: nothing is returned and nothing is stored.
C25_WitnessNothingStored ==
    /\ pf_phase = "returned"
    /\ pf_result.outcome = "returned"
    /\ pf_documents = <<<<" ">>, <<>>>>
    /\ pf_store_calls = <<>>

(***************************************************************************)
(* The BM25 score normalization of HybridRetriever.search, applied to two  *)
(* raw scores. Scores are in hundredths.                                   *)
(***************************************************************************)
\* Largest raw BM25 score, in hundredths.
MaxRawScore == 1200

\* Raw scores in steps of 0.5.
RawScores == {s \in 0..MaxRawScore : s % 50 = 0}

NormIdle ==
    /\ nm_raw = <<0, 0>>
    /\ nm_normalized = <<0, 0>>

\* The normalization line of the loop over text_results, for two results.
NormalizeScores ==
    /\ \E s1 \in RawScores, s2 \in RawScores :
          /\ nm_raw' = <<s1, s2>>
          /\ nm_normalized' = <<TextNorm(s1), TextNorm(s2)>>
    /\ UNCHANGED exceptNorm

NormNext == NormalizeScores

\* C27: the BM25 normalization is order-preserving and stays in [0, 1]:
\* for raw scores 0 <= s1 <= s2, n(s1) <= n(s2), and 0 <= n(s) <= 1.
C27_NormalizationMonotone ==
    /\ nm_normalized[1] \in 0..100
    /\ nm_raw[1] <= nm_raw[2] => nm_normalized[1] <= nm_normalized[2]

\* What does hold: n(s) lies in [0, 1], and n preserves the order of two
\* scores that are both at most 1.0 or both above 1.0.
C27_MonotoneOnEachSide ==
    /\ nm_normalized[1] \in 0..100
    /\ (nm_raw[1] <= nm_raw[2] /\ (nm_raw[1] > 100) = (nm_raw[2] > 100))
          => nm_normalized[1] <= nm_normalized[2]

(***************************************************************************)
(* The process-wide logger and the two route groups' get_pipeline          *)
(*                                                                         *)
(* A module-level map is held by its "llm" and "default" entries, "" for a *)
(* missing key. The configuration file is read at each first use, so the   *)
(* map it gives is an input of that call. get_pipeline runs here as one    *)
(* step; its interleavings are those of the route-group component above.   *)
(***************************************************************************)
LevelNames == {"", "DEBUG", "INFO", "WARNING"}
ModuleLevels == [llm : LevelNames, default : LevelNames]

LogIdle ==
    /\ lg_pipeline = [chat |-> "None", documents |-> "None"]
    /\ lg_module_levels = [llm |-> "", default |-> ""]
    /\ lg_last_setup = "none"
    /\ lg_calls = [chat |-> 0, documents |-> 0]

\* setup_logger(config): the logger is built again from the logging record
\* of the configuration it is given; nothing of the earlier setup is kept.
SetupLogger(module_levels) == module_levels

\* The level the logger's filter applies to a module tag: the tag's entry,
\* else the "default" entry, else DEBUG.
EffectiveLevel(module_levels, tag) ==
    IF module_levels[tag] # "" THEN module_levels[tag]
    ELSE IF module_levels.default # "" THEN module_levels.default
    ELSE "DEBUG"

\* get_pipeline of the chat router; file is the module_levels of the
\* configuration file at the time of the call.
ChatGetPipeline ==
    /\ lg_calls.chat < MaxRequests
    /\ lg_calls' = [lg_calls EXCEPT !.chat = @ + 1]
    /\ IF lg_pipeline.chat = "None"
       THEN \E file \in ModuleLevels :
               /\ lg_module_levels' = SetupLogger([file EXCEPT !.llm = "INFO"])
               /\ lg_last_setup' = "chat"
               /\ lg_pipeline' = [lg_pipeline EXCEPT !.chat = "RAGPipeline"]
       ELSE UNCHANGED <<lg_module_levels, lg_last_setup, lg_pipeline>>
    /\ UNCHANGED exceptLog

\* get_pipeline of the documents router.
DocumentsGetPipeline ==
    /\ lg_calls.documents < MaxRequests
    /\ lg_calls' = [lg_calls EXCEPT !.documents = @ + 1]
    /\ IF lg_pipeline.documents = "None"
       THEN \E file \in ModuleLevels :
               /\ lg_module_levels' = SetupLogger(file)
               /\ lg_last_setup' = "documents"
               /\ lg_pipeline' = [lg_pipeline EXCEPT !.documents = "RAGPipeline"]
       ELSE UNCHANGED <<lg_module_levels, lg_last_setup, lg_pipeline>>
    /\ UNCHANGED exceptLog

LogNext == ChatGetPipeline \/ DocumentsGetPipeline

\* C30: once the chat group's pipeline has been constructed, the logger's
\* effective level for the llm module is INFO in every later state,
\* whichever group is first used first.
C30_LlmLevelStaysInfo ==
    lg_pipeline.chat # "None" => EffectiveLevel(lg_module_levels, "llm") = "INFO"

\* What does hold: the llm level is INFO for as long as the chat group's
\* setup is the latest one; after a later setup by the documents group it
\* is whatever the configuration file gives.
C30_InfoWhileChatSetupIsLatest ==
    lg_last_setup = "chat" => EffectiveLevel(lg_module_levels, "llm") = "INFO"

(***************************************************************************)
(* Specifications: one per component, the other components parked.         *)
(***************************************************************************)
QueryInit ==
    /\ QueryIdle
    /\ HybridParked
    /\ ChunkIdle
    /\ StreamIdle
    /\ PipeIdle
    /\ UploadIdle
    /\ ChatIdle
    /\ DirIdle
    /\ UpdateIdle
    /\ AdapterIdle
    /\ FactoryIdle
    /\ RegistryIdle
    /\ ConfigIdle
    /\ ParseIdle
    /\ MarkdownIdle
    /\ DetectIdle
    /\ MineruIdle
    /\ BatchIdle
    /\ SmartIdle
    /\ FileIdle
    /\ NormIdle
    /\ LogIdle

SpecQuery == QueryInit /\ [][QueryNext]_vars

HybridInit ==
    /\ HybridIdle
    /\ QueryParked
    /\ ChunkIdle
    /\ StreamIdle
    /\ PipeIdle
    /\ UploadIdle
    /\ ChatIdle
    /\ DirIdle
    /\ UpdateIdle
    /\ AdapterIdle
    /\ FactoryIdle
    /\ RegistryIdle
    /\ ConfigIdle
    /\ ParseIdle
    /\ MarkdownIdle
    /\ DetectIdle
    /\ MineruIdle
    /\ BatchIdle
    /\ SmartIdle
    /\ FileIdle
    /\ NormIdle
    /\ LogIdle

SpecHybrid == HybridInit /\ [][HybridNext]_vars

ChunkInit ==
    /\ ChunkIdle
    /\ QueryParked
    /\ HybridParked
    /\ StreamIdle
    /\ PipeIdle
    /\ UploadIdle
    /\ ChatIdle
    /\ DirIdle
    /\ UpdateIdle
    /\ AdapterIdle
    /\ FactoryIdle
    /\ RegistryIdle
    /\ ConfigIdle
    /\ ParseIdle
    /\ MarkdownIdle
    /\ DetectIdle
    /\ MineruIdle
    /\ BatchIdle
    /\ SmartIdle
    /\ FileIdle
    /\ NormIdle
    /\ LogIdle

SpecChunk == ChunkInit /\ [][ChunkNext]_vars

StreamInit ==
    /\ StreamIdle
    /\ QueryParked
    /\ HybridParked
    /\ ChunkIdle
    /\ PipeIdle
    /\ UploadIdle
    /\ ChatIdle
    /\ DirIdle
    /\ UpdateIdle
    /\ AdapterIdle
    /\ FactoryIdle
    /\ RegistryIdle
    /\ ConfigIdle
    /\ ParseIdle
    /\ MarkdownIdle
    /\ DetectIdle
    /\ MineruIdle
    /\ BatchIdle
    /\ SmartIdle
    /\ FileIdle
    /\ NormIdle
    /\ LogIdle

SpecStream == StreamInit /\ [][StreamNext]_vars

PipeInit ==
    /\ PipeIdle
    /\ QueryParked
    /\ HybridParked
    /\ ChunkIdle
    /\ StreamIdle
    /\ UploadIdle
    /\ ChatIdle
    /\ DirIdle
    /\ UpdateIdle
    /\ AdapterIdle
    /\ FactoryIdle
    /\ RegistryIdle
    /\ ConfigIdle
    /\ ParseIdle
    /\ MarkdownIdle
    /\ DetectIdle
    /\ MineruIdle
    /\ BatchIdle
    /\ SmartIdle
    /\ FileIdle
    /\ NormIdle
    /\ LogIdle

SpecPipe == PipeInit /\ [][PipeNext]_vars

UploadInit ==
    /\ UploadIdle
    /\ QueryParked
    /\ HybridParked
    /\ ChunkIdle
    /\ StreamIdle
    /\ PipeIdle
    /\ ChatIdle
    /\ DirIdle
    /\ UpdateIdle
    /\ AdapterIdle
    /\ FactoryIdle
    /\ RegistryIdle
    /\ ConfigIdle
    /\ ParseIdle
    /\ MarkdownIdle
    /\ DetectIdle
    /\ MineruIdle
    /\ BatchIdle
    /\ SmartIdle
    /\ FileIdle
    /\ NormIdle
    /\ LogIdle

SpecUpload == UploadInit /\ [][UploadNext]_vars

ChatInit ==
    /\ ChatIdle
    /\ QueryParked
    /\ HybridParked
    /\ ChunkIdle
    /\ StreamIdle
    /\ PipeIdle
    /\ UploadIdle
    /\ DirIdle
    /\ UpdateIdle
    /\ AdapterIdle
    /\ FactoryIdle
    /\ RegistryIdle
    /\ ConfigIdle
    /\ ParseIdle
    /\ MarkdownIdle
    /\ DetectIdle
    /\ MineruIdle
    /\ BatchIdle
    /\ SmartIdle
    /\ FileIdle
    /\ NormIdle
    /\ LogIdle

SpecChat == ChatInit /\ [][ChatNext]_vars

DirInit ==
    /\ DirIdle
    /\ QueryParked
    /\ HybridParked
    /\ ChunkIdle
    /\ StreamIdle
    /\ PipeIdle
    /\ UploadIdle
    /\ ChatIdle
    /\ UpdateIdle
    /\ AdapterIdle
    /\ FactoryIdle
    /\ RegistryIdle
    /\ ConfigIdle
    /\ ParseIdle
    /\ MarkdownIdle
    /\ DetectIdle
    /\ MineruIdle
    /\ BatchIdle
    /\ SmartIdle
    /\ FileIdle
    /\ NormIdle
    /\ LogIdle

SpecDir == DirInit /\ [][DirNext]_vars

UpdateInit ==
    /\ UpdateIdle
    /\ QueryParked
    /\ HybridParked
    /\ ChunkIdle
    /\ StreamIdle
    /\ PipeIdle
    /\ UploadIdle
    /\ ChatIdle
    /\ DirIdle
    /\ AdapterIdle
    /\ FactoryIdle
    /\ RegistryIdle
    /\ ConfigIdle
    /\ ParseIdle
    /\ MarkdownIdle
    /\ DetectIdle
    /\ MineruIdle
    /\ BatchIdle
    /\ SmartIdle
    /\ FileIdle
    /\ NormIdle
    /\ LogIdle

SpecUpdate == UpdateInit /\ [][UpdateNext]_vars

AdapterInit ==
    /\ AdapterIdle
    /\ QueryParked
    /\ HybridParked
    /\ ChunkIdle
    /\ StreamIdle
    /\ PipeIdle
    /\ UploadIdle
    /\ ChatIdle
    /\ DirIdle
    /\ UpdateIdle
    /\ FactoryIdle
    /\ RegistryIdle
    /\ ConfigIdle
    /\ ParseIdle
    /\ MarkdownIdle
    /\ DetectIdle
    /\ MineruIdle
    /\ BatchIdle
    /\ SmartIdle
    /\ FileIdle
    /\ NormIdle
    /\ LogIdle

SpecAdapter == AdapterInit /\ [][AdapterNext]_vars

FactoryInit ==
    /\ FactoryIdle
    /\ QueryParked
    /\ HybridParked
    /\ ChunkIdle
    /\ StreamIdle
    /\ PipeIdle
    /\ UploadIdle
    /\ ChatIdle
    /\ DirIdle
    /\ UpdateIdle
    /\ AdapterIdle
    /\ RegistryIdle
    /\ ConfigIdle
    /\ ParseIdle
    /\ MarkdownIdle
    /\ DetectIdle
    /\ MineruIdle
    /\ BatchIdle
    /\ SmartIdle
    /\ FileIdle
    /\ NormIdle
    /\ LogIdle

SpecFactory == FactoryInit /\ [][FactoryNext]_vars

RegistryInit ==
    /\ RegistryIdle
    /\ QueryParked
    /\ HybridParked
    /\ ChunkIdle
    /\ StreamIdle
    /\ PipeIdle
    /\ UploadIdle
    /\ ChatIdle
    /\ DirIdle
    /\ UpdateIdle
    /\ AdapterIdle
    /\ FactoryIdle
    /\ ConfigIdle
    /\ ParseIdle
    /\ MarkdownIdle
    /\ DetectIdle
    /\ MineruIdle
    /\ BatchIdle
    /\ SmartIdle
    /\ FileIdle
    /\ NormIdle
    /\ LogIdle

SpecRegistry == RegistryInit /\ [][RegistryNext]_vars

ConfigInit ==
    /\ ConfigIdle
    /\ QueryParked
    /\ HybridParked
    /\ ChunkIdle
    /\ StreamIdle
    /\ PipeIdle
    /\ UploadIdle
    /\ ChatIdle
    /\ DirIdle
    /\ UpdateIdle
    /\ AdapterIdle
    /\ FactoryIdle
    /\ RegistryIdle
    /\ ParseIdle
    /\ MarkdownIdle
    /\ DetectIdle
    /\ MineruIdle
    /\ BatchIdle
    /\ SmartIdle
    /\ FileIdle
    /\ NormIdle
    /\ LogIdle

SpecConfig == ConfigInit /\ [][ConfigNext]_vars

ParseInit ==
    /\ ParseIdle
    /\ QueryParked
    /\ HybridParked
    /\ ChunkIdle
    /\ StreamIdle
    /\ PipeIdle
    /\ UploadIdle
    /\ ChatIdle
    /\ DirIdle
    /\ UpdateIdle
    /\ AdapterIdle
    /\ FactoryIdle
    /\ RegistryIdle
    /\ ConfigIdle
    /\ MarkdownIdle
    /\ DetectIdle
    /\ MineruIdle
    /\ BatchIdle
    /\ SmartIdle
    /\ FileIdle
    /\ NormIdle
    /\ LogIdle

SpecParse == ParseInit /\ [][ParseNext]_vars

MarkdownInit ==
    /\ MarkdownIdle
    /\ QueryParked
    /\ HybridParked
    /\ ChunkIdle
    /\ StreamIdle
    /\ PipeIdle
    /\ UploadIdle
    /\ ChatIdle
    /\ DirIdle
    /\ UpdateIdle
    /\ AdapterIdle
    /\ FactoryIdle
    /\ RegistryIdle
    /\ ConfigIdle
    /\ ParseIdle
    /\ DetectIdle
    /\ MineruIdle
    /\ BatchIdle
    /\ SmartIdle
    /\ FileIdle
    /\ NormIdle
    /\ LogIdle

SpecMarkdown == MarkdownInit /\ [][MarkdownNext]_vars

DetectInit ==
    /\ DetectIdle
    /\ QueryParked
    /\ HybridParked
    /\ ChunkIdle
    /\ StreamIdle
    /\ PipeIdle
    /\ UploadIdle
    /\ ChatIdle
    /\ DirIdle
    /\ UpdateIdle
    /\ AdapterIdle
    /\ FactoryIdle
    /\ RegistryIdle
    /\ ConfigIdle
    /\ ParseIdle
    /\ MarkdownIdle
    /\ MineruIdle
    /\ BatchIdle
    /\ SmartIdle
    /\ FileIdle
    /\ NormIdle
    /\ LogIdle

SpecDetect == DetectInit /\ [][DetectNext]_vars

MineruInit ==
    /\ MineruIdle
    /\ QueryParked
    /\ HybridParked
    /\ ChunkIdle
    /\ StreamIdle
    /\ PipeIdle
    /\ UploadIdle
    /\ ChatIdle
    /\ DirIdle
    /\ UpdateIdle
    /\ AdapterIdle
    /\ FactoryIdle
    /\ RegistryIdle
    /\ ConfigIdle
    /\ ParseIdle
    /\ MarkdownIdle
    /\ DetectIdle
    /\ BatchIdle
    /\ SmartIdle
    /\ FileIdle
    /\ NormIdle
    /\ LogIdle

SpecMineru == MineruInit /\ [][MineruNext]_vars

BatchInit ==
    /\ BatchIdle
    /\ QueryParked
    /\ HybridParked
    /\ ChunkIdle
    /\ StreamIdle
    /\ PipeIdle
    /\ UploadIdle
    /\ ChatIdle
    /\ DirIdle
    /\ UpdateIdle
    /\ AdapterIdle
    /\ FactoryIdle
    /\ RegistryIdle
    /\ ConfigIdle
    /\ ParseIdle
    /\ MarkdownIdle
    /\ DetectIdle
    /\ MineruIdle
    /\ SmartIdle
    /\ FileIdle
    /\ NormIdle
    /\ LogIdle

SpecBatch == BatchInit /\ [][BatchNext]_vars

SmartInit ==
    /\ SmartIdle
    /\ QueryParked
    /\ HybridParked
    /\ ChunkIdle
    /\ StreamIdle
    /\ PipeIdle
    /\ UploadIdle
    /\ ChatIdle
    /\ DirIdle
    /\ UpdateIdle
    /\ AdapterIdle
    /\ FactoryIdle
    /\ RegistryIdle
    /\ ConfigIdle
    /\ ParseIdle
    /\ MarkdownIdle
    /\ DetectIdle
    /\ MineruIdle
    /\ BatchIdle
    /\ FileIdle
    /\ NormIdle
    /\ LogIdle

SpecSmart == SmartInit /\ [][SmartNext]_vars

FileInit ==
    /\ FileIdle
    /\ QueryParked
    /\ HybridParked
    /\ ChunkIdle
    /\ StreamIdle
    /\ PipeIdle
    /\ UploadIdle
    /\ ChatIdle
    /\ DirIdle
    /\ UpdateIdle
    /\ AdapterIdle
    /\ FactoryIdle
    /\ RegistryIdle
    /\ ConfigIdle
    /\ ParseIdle
    /\ MarkdownIdle
    /\ DetectIdle
    /\ MineruIdle
    /\ BatchIdle
    /\ SmartIdle
    /\ NormIdle
    /\ LogIdle

SpecFile == FileInit /\ [][FileNext]_vars

NormInit ==
    /\ NormIdle
    /\ QueryParked
    /\ HybridParked
    /\ ChunkIdle
    /\ StreamIdle
    /\ PipeIdle
    /\ UploadIdle
    /\ ChatIdle
    /\ DirIdle
    /\ UpdateIdle
    /\ AdapterIdle
    /\ FactoryIdle
    /\ RegistryIdle
    /\ ConfigIdle
    /\ ParseIdle
    /\ MarkdownIdle
    /\ DetectIdle
    /\ MineruIdle
    /\ BatchIdle
    /\ SmartIdle
    /\ FileIdle
    /\ LogIdle

SpecNorm == NormInit /\ [][NormNext]_vars

LogInit ==
    /\ LogIdle
    /\ QueryParked
    /\ HybridParked
    /\ ChunkIdle
    /\ StreamIdle
    /\ PipeIdle
    /\ UploadIdle
    /\ ChatIdle
    /\ DirIdle
    /\ UpdateIdle
    /\ AdapterIdle
    /\ FactoryIdle
    /\ RegistryIdle
    /\ ConfigIdle
    /\ ParseIdle
    /\ MarkdownIdle
    /\ DetectIdle
    /\ MineruIdle
    /\ BatchIdle
    /\ SmartIdle
    /\ FileIdle
    /\ NormIdle

SpecLog == LogInit /\ [][LogNext]_vars

====
